---- MODULE Spec2Model ----
(***************************************************************************)
(* DroneFlow: the server-sent-event registry of routes/events.js and the   *)
(* request routes of routes/requests.js that trigger its broadcasts.       *)
(*                                                                         *)
(* Node runs every handler and timer callback to completion on one event   *)
(* loop, so a handler is one atomic action.  The only interleaving points  *)
(* inside a handler are its awaits (the data-store calls of the request    *)
(* routes), which are modelled as separate steps.                          *)
(***************************************************************************)
EXTENDS Integers, Sequences, FiniteSets, TLC

\* ------------------------------------------------------------------ bounds
MaxClients == 2      \* subscriber connections admitted in one behaviour
MaxTicks == 2        \* clock advances in one behaviour
MaxRequests == 2     \* create / update / delete requests in one behaviour
MaxSubscribers == 1  \* connections admitted while the request routes are driven
MaxApiTicks == 1     \* clock advances while the streams are recorded
MaxWindows == 2      \* rate-limit windows the clock advances by
MaxOver == 2         \* requests of one client beyond the limit in one window
MaxLines == 2        \* lines on a recorded stream before the last direct send
MaxSignals == 2      \* forced-shutdown timers armed in one behaviour

\* ------------------------------------------------------- program constants
HeartbeatPeriod == 30000
staleTimeout == 5 * 60 * 1000
CleanupPeriod == 5 * 60 * 1000
RATE_LIMIT_WINDOW == 15 * 60 * 1000
MAX_REQUESTS == 100

\* The clock is observed in steps of one staleness window.  Date.now() is the
\* wall clock and the timers are not urgent: a callback runs no earlier than
\* its due time, and may find that more time has passed.
TickStep == staleTimeout
MaxTime == MaxTicks * TickStep

Objs == 1..MaxClients

EventTypes == {"request-created", "request-updated", "request-deleted"}

VARIABLES
    now,         \* Date.now()
    nextObj,     \* client objects created so far; object k is the k-th admitted
    client,      \* client object -> [id, lastPing]
    response,    \* client object -> condition of its res stream
    sseClients,  \* the Set sseClients, in insertion (= iteration) order
    heartbeat,   \* client object -> its setInterval heartbeat is active
    reqOpen,     \* client object -> its req can still emit close / error
    cleanupDue,  \* earliest time of the next cleanupConnections run
    writes,      \* the res.write / res.end calls made by the last step, in order
    calls,       \* the broadcastToClients calls made by the last step, in order
    last,        \* the last step: the handler that ran, the client it ran for,
                 \* the clients it deleted, whether an exception left it, and
                 \* the id argument of a sendToClient call
    supabase,    \* the Supabase client exists (else the mock store is used)
    mockRequests,\* the array mockRequests
    dbRows,      \* the rows of table service_requests
    inflight,    \* the data-store calls the request handlers are awaiting
    served,      \* requests received so far that change the store or await it
    reply,       \* the HTTP response sent by the last step, if it sent one
    recording,   \* the streams and the broadcast calls are being recorded
    sink,        \* client object -> the lines its stream has carried so far
    invoked,     \* the broadcastToClients calls made so far, in order
    joined,      \* client object -> the number of broadcastToClients calls
                 \* that had returned when it was admitted
    requestCounts, \* the Map requestCounts: req.ip -> { count, resetTime }
    verdict,     \* what the rate limiter did with the last request it saw
    passedOn,    \* req.ip -> when its current window was opened, and the
                 \* requests of it passed on to the routes since then
    listening,   \* the HTTP server accepts connections (server.close not called)
    forceTimers, \* the due times of the forced-shutdown timers that are armed
    exitCode     \* the code the process exited with, NoExit while it runs

registryVars == <<now, nextObj, client, response, sseClients, heartbeat, reqOpen,
                  cleanupDue, writes, calls, last>>

storeVars == <<supabase, mockRequests, dbRows, inflight, served>>

rateVars == <<requestCounts, verdict, passedOn>>

procVars == <<listening, forceTimers, exitCode>>

vars == <<now, nextObj, client, response, sseClients, heartbeat, reqOpen,
          cleanupDue, writes, calls, last,
          supabase, mockRequests, dbRows, inflight, served, reply,
          recording, sink, invoked, joined, requestCounts, verdict, passedOn,
          listening, forceTimers, exitCode>>

\* --------------------------------------------------------------- helpers
Range(s) == {s[i] : i \in 1..Len(s)}

\* Set.prototype.delete on the insertion-ordered set.
\* Mutant: the delete also loses every entry added after the one it removes.
SetDeleteTruncates(s, c) == SelectSeq(s, LAMBDA x : x < c)

\* Mutant: splice(indexOf(c), 1), which drops the last entry when c is absent.
SetDeleteSplice(s, c) ==
    IF c \in Range(s) THEN SelectSeq(s, LAMBDA x : x # c)
    ELSE SubSeq(s, 1, Len(s) - 1)

SetDelete(s, c) == SelectSeq(s, LAMBDA x : x # c)

\* Set.prototype.add: appended unless present.
SetAdd(s, c) == IF c \in Range(s) THEN s ELSE Append(s, c)

\* The fields of a client object that does not exist (yet, or any more).
NoClient == [id |-> 0 - 1, lastPing |-> 0 - 1]

\* ------------------------------------------------------------ the res stream
\* Conditions of a response stream as the handlers can observe them:
\*   open       writable
\*   throws     res.write throws
\*   destroyed  res.destroyed is true; res.write returns without writing
\*              and without throwing
\*   ended      res.end() was called; res.write returns without writing
\*   closed     the transport is closed and no handler or timer holds the stream
\* The condition of a stream does not change inside a handler, which runs to
\* completion: of the two writes of one frame the first is the one that throws.
SinkStates == {"open", "throws", "destroyed", "ended", "closed"}

WriteOutcome(s) ==
    CASE s = "open" -> "ok"
      [] s = "throws" -> "throw"
      [] OTHER -> "dropped"

IsDestroyed(s) == s = "destroyed"

\* res.end(): closes an open stream; throws (and is caught) on a throwing one.
AfterEnd(s) == IF s = "open" THEN "ended" ELSE s

EndOutcome(s) == IF s = "throws" THEN "throw" ELSE "ok"

Wr(c, line, type, data, outcome) ==
    [client |-> c, line |-> line, type |-> type, data |-> data, outcome |-> outcome]

\* new Date().toISOString() of the instant t.
Iso(t) == [iso |-> t]

Message(type, data, t) == [type |-> type, data |-> data, timestamp |-> Iso(t)]

\* The object of the initial connection message.
ConnectedMessage(t) ==
    [type |-> "connected", message |-> "Real-time connection established",
     timestamp |-> Iso(t)]

\* The object of a heartbeat message.
HeartbeatMessage(t) == [type |-> "heartbeat", timestamp |-> Iso(t)]

\* The response a request handler sends; NoReply while a step sends none.
NoReply == [op |-> "", id |-> "", code |-> 0, success |-> FALSE, data |-> <<>>]

Reply(op, id, code, success, data) ==
    [op |-> op, id |-> id, code |-> code, success |-> success, data |-> data]

\* One call of broadcastToClients, with the mock store as it is at the call.
Call(type, data, store) == [type |-> type, data |-> data, store |-> store]

\* The id argument of a step that is no sendToClient call.
NoId == 0 - 3

\* ------------------------------------------------------------------- Init
InitRegistry ==
    /\ now = 0
    /\ nextObj = 0
    /\ client = [c \in Objs |-> NoClient]
    /\ response = [c \in Objs |-> "open"]
    /\ sseClients = <<>>
    /\ heartbeat = [c \in Objs |-> FALSE]
    /\ reqOpen = [c \in Objs |-> FALSE]
    /\ cleanupDue = CleanupPeriod
    /\ writes = <<>>
    /\ calls = <<>>
    /\ last = [op |-> "", client |-> 0, evicted |-> {}, threw |-> FALSE, id |-> NoId]
    /\ sink = [c \in Objs |-> <<>>]
    /\ invoked = <<>>
    /\ joined = [c \in Objs |-> 0]

\* The record of a step that leaves the registry as `after`.
Step(op, c, after, threw) ==
    [op |-> op, client |-> c, evicted |-> Range(sseClients) \ Range(after),
     threw |-> threw, id |-> NoId]

\* The lines of ws that reached the stream of client c.
Arrived(ws, c) ==
    SelectSeq(ws, LAMBDA w : w.client = c /\ w.outcome = "ok" /\ w.line # "end")

\* A stream carries the lines written to it in the order of the write calls.
\* The record of a client is dropped when it leaves the registry.
Record ==
    /\ recording' = recording
    /\ IF recording
       THEN /\ sink' = [c \in Objs |->
                           IF c \in Range(sseClients')
                           THEN sink[c] \o Arrived(writes', c)
                           ELSE <<>>]
            /\ invoked' = invoked \o [i \in 1..Len(calls') |->
                                         [type |-> calls'[i].type, data |-> calls'[i].data]]
            /\ joined' = [c \in Objs |->
                             IF c \in Range(sseClients')
                             THEN IF c \in Range(sseClients) THEN joined[c]
                                  ELSE Len(invoked)
                             ELSE 0]
       ELSE UNCHANGED <<sink, invoked, joined>>

\* ------------------------------------------------------------------ clock
\* A timer whose due time has passed runs on the next turn of the event loop:
\* it is due now, however long ago it became due.
Overdue(due, t) == IF due < t THEN t ELSE due

Tick ==
    /\ now < MaxTime
    /\ now' = now + TickStep
    /\ cleanupDue' = Overdue(cleanupDue, now')
    /\ writes' = <<>>
    /\ calls' = <<>>
    /\ last' = Step("", 0, sseClients, FALSE)
    /\ UNCHANGED <<nextObj, client, response, sseClients, heartbeat, reqOpen>>
    /\ reply' = NoReply
    /\ UNCHANGED storeVars
    /\ Record
    /\ UNCHANGED procVars
    /\ UNCHANGED rateVars

\* ------------------------------------------------- router.get('/') admission
\* Mutant: the module keeps the event of the latest broadcastToClients call
\* and writes it to a new client after the acknowledgement.
AdmitReplays ==
    /\ nextObj < MaxClients
    /\ LET c == nextObj + 1 IN
        /\ nextObj' = c
        /\ client' = [client EXCEPT ![c] = [id |-> now, lastPing |-> now]]
        /\ response' = [response EXCEPT ![c] = "open"]
        /\ sseClients' = SetAdd(sseClients, c)
        /\ heartbeat' = [heartbeat EXCEPT ![c] = TRUE]
        /\ reqOpen' = [reqOpen EXCEPT ![c] = TRUE]
        /\ writes' = <<Wr(c, "data", "connected",
                          ConnectedMessage(now),
                          "ok")>>
                      \o IF calls = <<>> THEN <<>>
                         ELSE <<Wr(c, "event", calls[1].type, calls[1].type, "ok"),
                                Wr(c, "data", calls[1].type,
                                   Message(calls[1].type, calls[1].data, now), "ok")>>
        /\ calls' = <<>>
        /\ last' = Step("admit", c, sseClients, FALSE)
    /\ UNCHANGED <<now, cleanupDue>>
    /\ reply' = NoReply
    /\ UNCHANGED storeVars
    /\ Record
    /\ UNCHANGED procVars
    /\ UNCHANGED rateVars

\* Mutant: the acknowledgement is written to every registered client as well.
AdmitGreetsAll ==
    /\ nextObj < MaxClients
    /\ LET c == nextObj + 1
           m == ConnectedMessage(now)
       IN
        /\ nextObj' = c
        /\ client' = [client EXCEPT ![c] = [id |-> now, lastPing |-> now]]
        /\ response' = [response EXCEPT ![c] = "open"]
        /\ sseClients' = SetAdd(sseClients, c)
        /\ heartbeat' = [heartbeat EXCEPT ![c] = TRUE]
        /\ reqOpen' = [reqOpen EXCEPT ![c] = TRUE]
        /\ writes' = [i \in 1..Len(sseClients') |->
                         Wr(sseClients'[i], "data", "connected", m,
                            IF sseClients'[i] = c THEN "ok"
                            ELSE WriteOutcome(response[sseClients'[i]]))]
        /\ calls' = <<>>
        /\ last' = Step("admit", c, sseClients, FALSE)
    /\ UNCHANGED <<now, cleanupDue>>
    /\ reply' = NoReply
    /\ UNCHANGED storeVars
    /\ Record
    /\ UNCHANGED procVars
    /\ UNCHANGED rateVars

Admit ==
    /\ nextObj < MaxClients
    /\ LET c == nextObj + 1 IN
        /\ nextObj' = c
        /\ client' = [client EXCEPT ![c] = [id |-> now, lastPing |-> now]]
        /\ response' = [response EXCEPT ![c] = "open"]
        /\ sseClients' = SetAdd(sseClients, c)
        /\ heartbeat' = [heartbeat EXCEPT ![c] = TRUE]
        /\ reqOpen' = [reqOpen EXCEPT ![c] = TRUE]
        /\ writes' = <<Wr(c, "data", "connected",
                          ConnectedMessage(now),
                          WriteOutcome("open"))>>
        /\ calls' = <<>>
        /\ last' = Step("admit", c, sseClients, FALSE)
    /\ UNCHANGED <<now, cleanupDue>>
    /\ reply' = NoReply
    /\ UNCHANGED storeVars
    /\ Record
    /\ UNCHANGED procVars
    /\ UNCHANGED rateVars

\* The transport of a live subscriber fails; no close or error signal yet.
SinkFails ==
    /\ \E c \in Objs, s \in {"throws", "destroyed"} :
        /\ heartbeat[c] \/ c \in Range(sseClients)
        /\ response[c] = "open"
        /\ response' = [response EXCEPT ![c] = s]
        /\ last' = Step("", 0, sseClients, FALSE)
    /\ writes' = <<>>
    /\ calls' = <<>>
    /\ UNCHANGED <<now, nextObj, client, sseClients, heartbeat, reqOpen, cleanupDue>>
    /\ reply' = NoReply
    /\ UNCHANGED storeVars
    /\ Record
    /\ UNCHANGED procVars
    /\ UNCHANGED rateVars

\* ------------------------------------------------- the heartbeat interval
\* The interval is re-armed one period after each run, and every run that
\* does not throw sets lastPing, so the next run is due at lastPing + period.
HeartbeatDue(c) == heartbeat[c] /\ now >= client[c].lastPing + HeartbeatPeriod

\* Mutant: the heartbeat stores seconds where the admission stored milliseconds.
TouchSeconds(c, t) == [client EXCEPT ![c].lastPing = t \div 1000]

\* Mutant: the heartbeat refreshes lastPing of every client.
TouchAll(c, t) == [d \in Objs |-> [client[d] EXCEPT !.lastPing = t]]

\* client.lastPing = Date.now()
Touch(c, t) == [client EXCEPT ![c].lastPing = t]

HeartbeatThrew(c) == WriteOutcome(response[c]) = "throw"

\* Mutant: one timer handle shared by all clients, so that the catch block
\* of one heartbeat stops every heartbeat.
HeartbeatTickSharedTimer(c) ==
    /\ HeartbeatDue(c)
    /\ writes' = <<Wr(c, "data", "heartbeat", HeartbeatMessage(now),
                      WriteOutcome(response[c]))>>
    /\ IF HeartbeatThrew(c)
       THEN /\ heartbeat' = [d \in Objs |-> FALSE]
            /\ sseClients' = SetDelete(sseClients, c)
            /\ UNCHANGED <<client, response>>
       ELSE /\ client' = [client EXCEPT ![c].lastPing = now]
            /\ UNCHANGED <<heartbeat, sseClients, response>>
    /\ calls' = <<>>
    /\ last' = Step("heartbeat", c, sseClients', FALSE)
    /\ UNCHANGED <<now, nextObj, reqOpen, cleanupDue>>
    /\ reply' = NoReply
    /\ UNCHANGED storeVars
    /\ Record
    /\ UNCHANGED procVars
    /\ UNCHANGED rateVars

HeartbeatTick(c) ==
    /\ HeartbeatDue(c)
    /\ writes' = <<Wr(c, "data", "heartbeat", HeartbeatMessage(now),
                      WriteOutcome(response[c]))>>
    /\ IF HeartbeatThrew(c)
       THEN /\ heartbeat' = [heartbeat EXCEPT ![c] = FALSE]
            /\ sseClients' = SetDelete(sseClients, c)
            /\ client' = [client EXCEPT ![c] = NoClient]
            /\ response' = [response EXCEPT ![c] = "closed"]
       ELSE /\ client' = Touch(c, now)
            /\ UNCHANGED <<heartbeat, sseClients, response>>
    /\ calls' = <<>>
    /\ last' = Step("heartbeat", c, sseClients', FALSE)
    /\ UNCHANGED <<now, nextObj, reqOpen, cleanupDue>>
    /\ reply' = NoReply
    /\ UNCHANGED storeVars
    /\ Record
    /\ UNCHANGED procVars
    /\ UNCHANGED rateVars

\* ------------------------------------------- req.on('close') / req.on('error')
\* Each handler clears the interval and deletes the client: after it neither
\* the registry nor a timer holds the client object or its stream, and nothing
\* reads them again.
\* Mutant: the close handler clears the interval and forgets the delete.
CloseKeeps(c) ==
    /\ reqOpen[c]
    /\ heartbeat' = [heartbeat EXCEPT ![c] = FALSE]
    /\ reqOpen' = [reqOpen EXCEPT ![c] = FALSE]
    /\ writes' = <<>>
    /\ calls' = <<>>
    /\ last' = Step("close", c, sseClients, FALSE)
    /\ UNCHANGED <<now, nextObj, client, response, sseClients, cleanupDue>>
    /\ reply' = NoReply
    /\ UNCHANGED storeVars
    /\ Record
    /\ UNCHANGED procVars
    /\ UNCHANGED rateVars

Close(c) ==
    /\ reqOpen[c]
    /\ heartbeat' = [heartbeat EXCEPT ![c] = FALSE]
    /\ sseClients' = SetDelete(sseClients, c)
    /\ reqOpen' = [reqOpen EXCEPT ![c] = FALSE]
    /\ response' = [response EXCEPT ![c] = "closed"]
    /\ client' = [client EXCEPT ![c] = NoClient]
    /\ writes' = <<>>
    /\ calls' = <<>>
    /\ last' = Step("close", c, sseClients', FALSE)
    /\ UNCHANGED <<now, nextObj, cleanupDue>>
    /\ reply' = NoReply
    /\ UNCHANGED storeVars
    /\ Record
    /\ UNCHANGED procVars
    /\ UNCHANGED rateVars

Error(c) ==
    /\ reqOpen[c]
    /\ heartbeat' = [heartbeat EXCEPT ![c] = FALSE]
    /\ sseClients' = SetDelete(sseClients, c)
    /\ writes' = <<>>
    /\ calls' = <<>>
    /\ last' = Step("error", c, sseClients', FALSE)
    /\ response' = [response EXCEPT ![c] = "closed"]
    /\ client' = [client EXCEPT ![c] = NoClient]
    /\ UNCHANGED <<now, nextObj, reqOpen, cleanupDue>>
    /\ reply' = NoReply
    /\ UNCHANGED storeVars
    /\ Record
    /\ UNCHANGED procVars
    /\ UNCHANGED rateVars

\* Mutant: the two writes of a frame in the wrong order.
BroadcastTrySwapped(acc, c, eventType, message) ==
    LET o == WriteOutcome(acc.resp[c])
        w1 == Wr(c, "event", eventType, eventType, o)
        w2 == Wr(c, "data", eventType, message, o)
    IN  IF ~IsDestroyed(acc.resp[c])
        THEN IF o = "throw"
             THEN [acc EXCEPT !.out = Append(acc.out, w2), !.threw = TRUE]
             ELSE [acc EXCEPT !.out = acc.out \o <<w2, w1>>]
        ELSE [acc EXCEPT !.set = SetDelete(acc.set, c)]

\* ------------------------------------------------------ broadcastToClients
\* acc carries the registry, the streams, the writes made so far and whether
\* an exception is propagating.
\* The try block of the forEach callback: both writes, or the delete of a
\* client whose stream is destroyed.
BroadcastTry(acc, c, eventType, message) ==
    LET o == WriteOutcome(acc.resp[c])
        w1 == Wr(c, "event", eventType, eventType, o)
        w2 == Wr(c, "data", eventType, message, o)
    IN  IF ~IsDestroyed(acc.resp[c])
        THEN IF o = "throw"
             THEN [acc EXCEPT !.out = Append(acc.out, w1), !.threw = TRUE]
             ELSE [acc EXCEPT !.out = acc.out \o <<w1, w2>>]
        ELSE [acc EXCEPT !.set = SetDelete(acc.set, c)]

\* Mutant: the catch block logs the error and keeps the client.
BroadcastCatchKeeps(acc, c) == [acc EXCEPT !.threw = FALSE]

\* Mutant: the catch block deletes the client and throws the error again.
BroadcastCatchRethrows(acc, c) == [acc EXCEPT !.set = SetDelete(acc.set, c)]

\* The catch block: the exception ends here and the client is deleted.
BroadcastCatch(acc, c) == [acc EXCEPT !.set = SetDelete(acc.set, c), !.threw = FALSE]

\* Mutant: the callback without its try / catch.
BroadcastVisitNoCatch(acc, c, eventType, message) ==
    BroadcastTry(acc, c, eventType, message)

\* The forEach callback for one client.
BroadcastVisit(acc, c, eventType, message) ==
    LET r == BroadcastTry(acc, c, eventType, message)
    IN  IF r.threw THEN BroadcastCatch(r, c) ELSE r

\* Mutant: iteration by index over an array that shrinks under it, so that
\* the entry after a deleted one is skipped.
RECURSIVE BroadcastForEachSkips(_, _, _, _)
BroadcastForEachSkips(acc, todo, eventType, message) ==
    IF todo = <<>> \/ acc.threw THEN acc
    ELSE LET r == BroadcastVisit(acc, Head(todo), eventType, message)
         IN  IF Head(todo) \in Range(r.set) \/ Len(todo) = 1
             THEN BroadcastForEachSkips(r, Tail(todo), eventType, message)
             ELSE BroadcastForEachSkips(r, Tail(Tail(todo)), eventType, message)

\* Set.prototype.forEach: entries in insertion order; an entry deleted before
\* it is reached is not visited; an exception leaving the callback ends it.
RECURSIVE BroadcastForEach(_, _, _, _)
BroadcastForEach(acc, todo, eventType, message) ==
    IF todo = <<>> \/ acc.threw THEN acc
    ELSE IF Head(todo) \in Range(acc.set)
         THEN BroadcastForEach(BroadcastVisit(acc, Head(todo), eventType, message),
                               Tail(todo), eventType, message)
         ELSE BroadcastForEach(acc, Tail(todo), eventType, message)

\* Mutant: a broadcast with nobody to write to is an error.
broadcastToClientsNeedsClients(acc, eventType, data) ==
    IF acc.set = <<>> THEN [acc EXCEPT !.threw = TRUE]
    ELSE BroadcastForEach(acc, acc.set, eventType, Message(eventType, data, now))

\* Mutant: the timestamp of the message is the instant the module was loaded.
broadcastToClientsStale(acc, eventType, data) ==
    BroadcastForEach(acc, acc.set, eventType, Message(eventType, data, 0))

broadcastToClients(acc, eventType, data) ==
    BroadcastForEach(acc, acc.set, eventType, Message(eventType, data, now))

Acc0 == [set |-> sseClients, resp |-> response, out |-> <<>>, threw |-> FALSE]

\* A caller outside the request routes broadcasts an event.
BroadcastTypes == {"request-created"}

Payloads == {[request_id |-> "DR-2024-000001", message |-> "m"]}

\* Mutant: a delivered event counts as a sign of life and refreshes lastPing.
BroadcastRefreshes ==
    \E eventType \in BroadcastTypes, data \in Payloads :
        LET r == broadcastToClients(Acc0, eventType, data) IN
        /\ sseClients' = r.set
        /\ response' = r.resp
        /\ writes' = r.out
        /\ client' = [c \in Objs |->
                         IF \E i \in 1..Len(r.out) :
                                r.out[i].client = c /\ r.out[i].outcome = "ok"
                         THEN [client[c] EXCEPT !.lastPing = now]
                         ELSE client[c]]
        /\ calls' = <<Call(eventType, data, mockRequests)>>
        /\ last' = Step("broadcast", 0, r.set, r.threw)
        /\ UNCHANGED <<now, nextObj, heartbeat, reqOpen, cleanupDue>>
        /\ reply' = NoReply
        /\ UNCHANGED storeVars
        /\ Record
        /\ UNCHANGED procVars
        /\ UNCHANGED rateVars

Broadcast ==
    \E eventType \in BroadcastTypes, data \in Payloads :
        LET r == broadcastToClients(Acc0, eventType, data) IN
        /\ sseClients' = r.set
        /\ response' = r.resp
        /\ writes' = r.out
        /\ calls' = <<Call(eventType, data, mockRequests)>>
        /\ last' = Step("broadcast", 0, r.set, r.threw)
        /\ UNCHANGED <<now, nextObj, client, heartbeat, reqOpen, cleanupDue>>
        /\ reply' = NoReply
        /\ UNCHANGED storeVars
        /\ Record
        /\ UNCHANGED procVars
        /\ UNCHANGED rateVars

\* ------------------------------------------------------------ sendToClient
\* Mutant: the lookup falls back to the first client when no id matches.
FindClientOrFirst(s, clientId) ==
    IF \E i \in 1..Len(s) : client[s[i]].id = clientId
    THEN s[CHOOSE i \in 1..Len(s) :
               /\ client[s[i]].id = clientId
               /\ \A j \in 1..i - 1 : client[s[j]].id # clientId]
    ELSE IF s = <<>> THEN 0 ELSE Head(s)

\* Array.from(sseClients).find(c => c.id === clientId); 0 when none.
RECURSIVE FindClient(_, _)
FindClient(s, clientId) ==
    IF s = <<>> THEN 0
    ELSE IF client[Head(s)].id = clientId THEN Head(s)
         ELSE FindClient(Tail(s), clientId)

sendToClient(acc, clientId, eventType, data) ==
    LET c == FindClient(acc.set, clientId) IN
    IF c # 0 /\ ~IsDestroyed(acc.resp[c])
    THEN LET r == BroadcastTry(acc, c, eventType, Message(eventType, data, now))
         IN  IF r.threw THEN BroadcastCatch(r, c) ELSE r
    ELSE acc

\* The ids a caller can pass: the id of a registered client, or one nobody has.
AbsentId == 0 - 2

\* sendToClient has no caller in the repository; one event type is tried.
SendTypes == {"request-updated"}

SendTo ==
    \E clientId \in {client[c].id : c \in Range(sseClients)} \cup {AbsentId},
       eventType \in SendTypes, data \in Payloads :
        LET r == sendToClient(Acc0, clientId, eventType, data) IN
        /\ sseClients' = r.set
        /\ response' = r.resp
        /\ writes' = r.out
        /\ calls' = <<>>
        /\ last' = [Step("sendTo", FindClient(sseClients, clientId), r.set, r.threw)
                        EXCEPT !.id = clientId]
        /\ UNCHANGED <<now, nextObj, client, heartbeat, reqOpen, cleanupDue>>
        /\ reply' = NoReply
        /\ UNCHANGED storeVars
        /\ Record
        /\ UNCHANGED procVars
        /\ UNCHANGED rateVars

\* ------------------------------------------------------- getConnectionStats
\* Array.from(sseClients).filter(...).length at the instant t.
getConnectionStats(set, resp, t) ==
    [totalConnections |-> Len(set),
     activeConnections |-> Cardinality({c \in Range(set) : ~IsDestroyed(resp[c])}),
     oldConnections |-> Cardinality({c \in Range(set) : t - client[c].lastPing > 60000})]

\* ------------------------------------------------------ cleanupConnections
\* Mutant: a connection is reaped at the threshold already.
IsStaleAtThreshold(c, t) == t - client[c].lastPing >= staleTimeout

\* Mutant: the threshold is no longer than one heartbeat period.
IsStaleWithinPeriod(c, t) == t - client[c].lastPing >= HeartbeatPeriod

IsStale(c, t) == t - client[c].lastPing > staleTimeout

CleanupVisit(acc, c) ==
    IF IsStale(c, now)
    THEN IF ~IsDestroyed(acc.resp[c])
         THEN [acc EXCEPT !.set = SetDelete(acc.set, c),
                          !.resp[c] = AfterEnd(acc.resp[c]),
                          !.out = Append(acc.out,
                                         Wr(c, "end", "", "", EndOutcome(acc.resp[c])))]
         ELSE [acc EXCEPT !.set = SetDelete(acc.set, c)]
    ELSE acc

RECURSIVE CleanupForEach(_, _)
CleanupForEach(acc, todo) ==
    IF todo = <<>> THEN acc
    ELSE IF Head(todo) \in Range(acc.set)
         THEN CleanupForEach(CleanupVisit(acc, Head(todo)), Tail(todo))
         ELSE CleanupForEach(acc, Tail(todo))

cleanupConnections(acc) == CleanupForEach(acc, acc.set)

\* setInterval(cleanupConnections, 5 * 60 * 1000)
Cleanup ==
    /\ now >= cleanupDue
    /\ cleanupDue' = now + CleanupPeriod
    /\ LET r == cleanupConnections(Acc0) IN
        /\ sseClients' = r.set
        /\ response' = r.resp
        /\ writes' = r.out
    /\ calls' = <<>>
    /\ last' = Step("cleanup", 0, sseClients', FALSE)
    /\ UNCHANGED <<now, nextObj, client, heartbeat, reqOpen>>
    /\ reply' = NoReply
    /\ UNCHANGED storeVars
    /\ Record
    /\ UNCHANGED procVars
    /\ UNCHANGED rateVars

\* ============================================================ request routes
\* An object as a function from its property names; o.f is read only after
\* Has(o, f).
Has(o, f) == f \in DOMAIN o

\* { ...a, ...b }
Merge(a, b) ==
    [f \in DOMAIN a \cup DOMAIN b |-> IF f \in DOMAIN b THEN b[f] ELSE a[f]]

\* delete o.f
Without(o, f) == [g \in DOMAIN o \ {f} |-> o[g]]

\* A preferred date after every instant of the model, and one before them.
FutureDate == MaxTime + TickStep
PastDate == 0 - TickStep

\* The strings the request bodies of the model use, with the length of each
\* after trim().
TrimLen(v) ==
    CASE v = "J" -> 1
      [] v = "Jo Li" -> 5
      [] v = "5551234567" -> 10
      [] v = "12 Pier Road, Oakland" -> 21
      [] v = "Deliver one parcel to the pier office" -> 37
      [] OTHER -> 0

\* /^[^\s@]+@[^\s@]+\.[^\s@]+$/ on the e-mail strings of the model.
isValidEmail(email) ==
    CASE email = "jo@li.io" -> TRUE
      [] email = "jo.li.io" -> FALSE
      [] OTHER -> FALSE

isValidServiceType(type) ==
    type \in {"aerial_photography", "delivery", "agriculture_spraying",
              "surveillance", "inspection", "mapping", "other"}

isValidDate(date, t) == date > t

isValidTime(time) == time \in {"morning", "afternoon", "evening"}

\* validateRequest: TRUE when next() is called, FALSE when it answers 400.
validateRequest(body, t) ==
    /\ Has(body, "clientName") /\ ~(TrimLen(body.clientName) < 2)
    /\ Has(body, "email") /\ isValidEmail(body.email)
    /\ Has(body, "phone") /\ ~(TrimLen(body.phone) < 10)
    /\ Has(body, "serviceType") /\ isValidServiceType(body.serviceType)
    /\ Has(body, "location") /\ ~(TrimLen(body.location) < 10)
    /\ Has(body, "preferredDate") /\ isValidDate(body.preferredDate, t)
    /\ Has(body, "preferredTime") /\ isValidTime(body.preferredTime)
    /\ Has(body, "description") /\ ~(TrimLen(body.description) < 20)

ValidBody ==
    [clientName |-> "Jo Li", email |-> "jo@li.io", phone |-> "5551234567",
     serviceType |-> "delivery", location |-> "12 Pier Road, Oakland",
     preferredDate |-> FutureDate, preferredTime |-> "morning",
     description |-> "Deliver one parcel to the pier office"]

\* The bodies POST /api/requests is tried with.
CreateBodies ==
    { ValidBody,
      Merge(ValidBody, [request_id |-> "DR-2024-001236"]),
      Merge(ValidBody, [clientName |-> "J"]),
      Merge(ValidBody, [preferredDate |-> PastDate]),
      Without(ValidBody, "email") }

\* The bodies PUT /api/requests/:id is tried with.
UpdateBodies ==
    { [status |-> "confirmed"],
      [status |-> "cancelled", request_id |-> "DR-2024-000000",
       created_at |-> Iso(FutureDate)],
      [status |-> "shipped", request_id |-> "DR-2024-000000"] }

\* The values generateRequestId() is seen to return.
GeneratedIds == {"DR-2024-000001"}

\* The :id parameters PUT and DELETE are tried with: the id of a sample row,
\* and the generated id, which no row has before a create.
ParamIds == {"DR-2024-000001", "DR-2024-001236"}

\* The sample rows of mockRequests and of schema.sql (the properties the
\* routes do not read are left out).  Instants count from process start.
Seed(id, name, type, status) ==
    [request_id |-> id, clientName |-> name, serviceType |-> type,
     status |-> status, created_at |-> Iso(PastDate), updated_at |-> Iso(PastDate)]

SeedRequests ==
    << Seed("DR-2024-001234", "John Smith", "aerial_photography", "in_progress"),
       Seed("DR-2024-001235", "Sarah Johnson", "delivery", "completed"),
       Seed("DR-2024-001236", "Mike Chen", "agriculture_spraying", "pending") >>

StatusValues == {"pending", "confirmed", "in_progress", "completed", "cancelled"}

\* What a handler run leaves: the mock store, its broadcastToClients calls and
\* its response.
Outcome(store, cs, rp) == [store |-> store, calls |-> cs, reply |-> rp]

\* ------------------------------------------------------ POST /api/requests
\* request_id: req.body.request_id || generateRequestId()
requestData(body, generated, t) ==
    Merge(body,
          [request_id |-> IF Has(body, "request_id") THEN body.request_id ELSE generated,
           status |-> "pending", created_at |-> Iso(t), updated_at |-> Iso(t)])

CreatedCalls(data, store) ==
    <<Call("request-created",
           [request |-> data, message |-> <<"New service request: ", data.request_id>>],
           store)>>

createMock(store, body, generated, t) ==
    IF ~validateRequest(body, t)
    THEN Outcome(store, <<>>, Reply("create", "", 400, FALSE, <<>>))
    ELSE LET data == requestData(body, generated, t)
             after == <<data>> \o store
         IN  Outcome(after, CreatedCalls(data, after),
                     Reply("create", "", 201, TRUE, data))

\* ---------------------------------------------------- PUT /api/requests/:id
\* Mutant: the read-only fields are not removed from the update.
updateDataKeepsReadOnly(body, t) == Merge(body, [updated_at |-> Iso(t)])

updateData(body, t) ==
    Without(Without(Merge(body, [updated_at |-> Iso(t)]), "request_id"), "created_at")

\* Array.prototype.findIndex, 1-based; 0 when no entry has the id.
RECURSIVE FindIndexFrom(_, _, _)
FindIndexFrom(store, id, i) ==
    IF i > Len(store) THEN 0
    ELSE IF store[i].request_id = id THEN i
         ELSE FindIndexFrom(store, id, i + 1)

findIndex(store, id) == FindIndexFrom(store, id, 1)

UpdatedCalls(data, store) ==
    <<Call("request-updated",
           [request |-> data,
            message |-> <<"Request ", data.request_id, " status updated to ", data.status>>],
           store)>>

updateMock(store, id, body, t) ==
    LET i == findIndex(store, id) IN
    IF i = 0
    THEN Outcome(store, <<>>, Reply("update", id, 404, FALSE, <<>>))
    ELSE LET after == [store EXCEPT ![i] = Merge(store[i], updateData(body, t))]
         IN  Outcome(after, UpdatedCalls(after[i], after),
                     Reply("update", id, 200, TRUE, after[i]))

\* ------------------------------------------------- DELETE /api/requests/:id
\* Array.prototype.splice(i, 1)
Splice(store, i) == SubSeq(store, 1, i - 1) \o SubSeq(store, i + 1, Len(store))

\* Mutant: the delete route announces an update.
DeletedCallsAsUpdate(id, store) ==
    <<Call("request-updated",
           [request_id |-> id, message |-> <<"Request ", id, " has been deleted">>],
           store)>>

DeletedCalls(id, store) ==
    <<Call("request-deleted",
           [request_id |-> id, message |-> <<"Request ", id, " has been deleted">>],
           store)>>

deleteMock(store, id) ==
    LET i == findIndex(store, id) IN
    IF i = 0
    THEN Outcome(store, <<>>, Reply("delete", id, 404, FALSE, <<>>))
    ELSE LET after == Splice(store, i)
         IN  Outcome(after, DeletedCalls(id, after), Reply("delete", id, 200, TRUE, <<>>))

\* ------------------------------------------ a handler run, as one transition
\* The handler's catch block: an exception leaving broadcastToClients turns
\* the response into a 500.
Caught(rp) == Reply(rp.op, rp.id, 500, FALSE, <<>>)

\* Runs the broadcastToClients calls of an outcome on the registry and sends
\* its response.
Respond(op, o) ==
    LET r == IF o.calls = <<>> THEN Acc0
             ELSE broadcastToClients(Acc0, o.calls[1].type, o.calls[1].data)
    IN  /\ sseClients' = r.set
        /\ response' = r.resp
        /\ writes' = r.out
        /\ calls' = o.calls
        /\ last' = Step(op, 0, r.set, r.threw)
        /\ reply' = IF r.threw THEN Caught(o.reply) ELSE o.reply
        /\ UNCHANGED <<now, nextObj, client, heartbeat, reqOpen, cleanupDue>>
        /\ Record
        /\ UNCHANGED procVars
        /\ UNCHANGED rateVars

CreateMock ==
    /\ ~supabase /\ served < MaxRequests
    /\ \E body \in CreateBodies, generated \in GeneratedIds :
        LET o == createMock(mockRequests, body, generated, now) IN
        /\ mockRequests' = o.store
        /\ Respond("create", o)
    /\ served' = served + 1
    /\ UNCHANGED <<supabase, dbRows, inflight>>

UpdateMock ==
    /\ ~supabase /\ served < MaxRequests
    /\ \E id \in ParamIds, body \in UpdateBodies :
        LET o == updateMock(mockRequests, id, body, now) IN
        /\ mockRequests' = o.store
        /\ Respond("update", o)
    /\ served' = served + 1
    /\ UNCHANGED <<supabase, dbRows, inflight>>

DeleteMock ==
    /\ ~supabase /\ served < MaxRequests
    /\ \E id \in ParamIds :
        LET o == deleteMock(mockRequests, id) IN
        /\ mockRequests' = o.store
        /\ Respond("delete", o)
    /\ served' = served + 1
    /\ UNCHANGED <<supabase, dbRows, inflight>>

\* --------------------------------------------- the routes with the data store
\* The answer { data, error } of a data-store call; error is "" when null.
NoResult == [done |-> FALSE, error |-> "", data |-> <<>>]
DbOk(data) == [done |-> TRUE, error |-> "", data |-> data]
DbError(code) == [done |-> TRUE, error |-> code, data |-> <<>>]

\* An awaited call.  found records whether the table held a row with the id
\* of the call when the data store executed it.
Awaited(kind, id, data) ==
    [kind |-> kind, id |-> id, data |-> data, result |-> NoResult, found |-> FALSE]

\* The handler up to its await: validation, then the call is sent.
CreateSend ==
    /\ supabase /\ served < MaxRequests
    /\ \E body \in CreateBodies, generated \in GeneratedIds :
        IF ~validateRequest(body, now)
        THEN /\ reply' = Reply("create", "", 400, FALSE, <<>>)
             /\ UNCHANGED inflight
        ELSE /\ reply' = NoReply
             /\ inflight' = Append(inflight,
                    Awaited("create", "", requestData(body, generated, now)))
    /\ served' = served + 1
    /\ writes' = <<>>
    /\ calls' = <<>>
    /\ last' = Step("create", 0, sseClients, FALSE)
    /\ UNCHANGED <<now, nextObj, client, response, sseClients, heartbeat, reqOpen,
                   cleanupDue, supabase, mockRequests, dbRows>>
    /\ Record
    /\ UNCHANGED procVars
    /\ UNCHANGED rateVars

UpdateSend ==
    /\ supabase /\ served < MaxRequests
    /\ \E id \in ParamIds, body \in UpdateBodies :
        inflight' = Append(inflight, Awaited("update", id, updateData(body, now)))
    /\ served' = served + 1
    /\ reply' = NoReply
    /\ writes' = <<>>
    /\ calls' = <<>>
    /\ last' = Step("update", 0, sseClients, FALSE)
    /\ UNCHANGED <<now, nextObj, client, response, sseClients, heartbeat, reqOpen,
                   cleanupDue, supabase, mockRequests, dbRows>>
    /\ Record
    /\ UNCHANGED procVars
    /\ UNCHANGED rateVars

DeleteSend ==
    /\ supabase /\ served < MaxRequests
    /\ \E id \in ParamIds :
        inflight' = Append(inflight, Awaited("delete", id, <<>>))
    /\ served' = served + 1
    /\ reply' = NoReply
    /\ writes' = <<>>
    /\ calls' = <<>>
    /\ last' = Step("delete", 0, sseClients, FALSE)
    /\ UNCHANGED <<now, nextObj, client, response, sseClients, heartbeat, reqOpen,
                   cleanupDue, supabase, mockRequests, dbRows>>
    /\ Record
    /\ UNCHANGED procVars
    /\ UNCHANGED rateVars

\* The table service_requests: request_id is UNIQUE, status is CHECKed, and a
\* trigger sets updated_at on every update.
RowOk(row) == Has(row, "status") => row.status \in StatusValues

\* What the data store does with a call: the rows after it and its answer.
\* .single() answers PGRST116 when an update or a select matches no row; a
\* delete that matches no row is no error.
DbApply(rows, call, t) ==
    LET i == findIndex(rows, call.id) IN
    CASE call.kind = "create" ->
            IF findIndex(rows, call.data.request_id) # 0 \/ ~RowOk(call.data)
            THEN [rows |-> rows, result |-> DbError("23505")]
            ELSE [rows |-> Append(rows, call.data), result |-> DbOk(call.data)]
      [] call.kind = "update" ->
            IF i = 0 THEN [rows |-> rows, result |-> DbError("PGRST116")]
            ELSE IF ~RowOk(call.data) THEN [rows |-> rows, result |-> DbError("23514")]
            ELSE LET row == Merge(Merge(rows[i], call.data), [updated_at |-> Iso(t)])
                 IN  [rows |-> [rows EXCEPT ![i] = row], result |-> DbOk(row)]
      [] call.kind = "get" ->
            [rows |-> rows,
             result |-> IF i = 0 THEN DbError("PGRST116") ELSE DbOk(rows[i])]
      [] OTHER ->
            [rows |-> IF i = 0 THEN rows ELSE Splice(rows, i), result |-> DbOk(<<>>)]

\* The data store executes an awaited call, or the call fails on its way.
DbExec ==
    /\ \E k \in 1..Len(inflight) :
        /\ ~inflight[k].result.done
        /\ \/ LET a == DbApply(dbRows, inflight[k], now) IN
                /\ dbRows' = a.rows
                /\ inflight' = [inflight EXCEPT ![k].result = a.result,
                                                ![k].found =
                                                    findIndex(dbRows, inflight[k].id) # 0]
           \/ /\ dbRows' = dbRows
              /\ inflight' = [inflight EXCEPT ![k].result = DbError("ECONNRESET")]
    /\ reply' = NoReply
    /\ writes' = <<>>
    /\ calls' = <<>>
    /\ last' = Step("", 0, sseClients, FALSE)
    /\ UNCHANGED <<now, nextObj, client, response, sseClients, heartbeat, reqOpen,
                   cleanupDue, supabase, mockRequests, served>>
    /\ Record
    /\ UNCHANGED procVars
    /\ UNCHANGED rateVars

\* The handler after its await.
createAwaited(store, call) ==
    IF call.result.error # ""
    THEN Outcome(store, <<>>, Reply("create", "", 500, FALSE, <<>>))
    ELSE Outcome(store, CreatedCalls(call.result.data, store),
                 Reply("create", "", 201, TRUE, call.result.data))

updateAwaited(store, call) ==
    IF call.result.error # ""
    THEN IF call.result.error = "PGRST116"
         THEN Outcome(store, <<>>, Reply("update", call.id, 404, FALSE, <<>>))
         ELSE Outcome(store, <<>>, Reply("update", call.id, 500, FALSE, <<>>))
    ELSE Outcome(store, UpdatedCalls(call.result.data, store),
                 Reply("update", call.id, 200, TRUE, call.result.data))

\* Mutant: the broadcast comes before the error check.
deleteAwaitedEarlyBroadcast(store, call) ==
    IF call.result.error # ""
    THEN Outcome(store, DeletedCalls(call.id, store),
                 Reply("delete", call.id, 500, FALSE, <<>>))
    ELSE Outcome(store, DeletedCalls(call.id, store),
                 Reply("delete", call.id, 200, TRUE, <<>>))

deleteAwaited(store, call) ==
    IF call.result.error # ""
    THEN Outcome(store, <<>>, Reply("delete", call.id, 500, FALSE, <<>>))
    ELSE Outcome(store, DeletedCalls(call.id, store),
                 Reply("delete", call.id, 200, TRUE, <<>>))

getAwaited(store, call) ==
    IF call.result.error # ""
    THEN IF call.result.error = "PGRST116"
         THEN Outcome(store, <<>>, Reply("get", call.id, 404, FALSE, <<>>))
         ELSE Outcome(store, <<>>, Reply("get", call.id, 500, FALSE, <<>>))
    ELSE Outcome(store, <<>>, Reply("get", call.id, 200, TRUE, call.result.data))

afterAwait(store, call) ==
    CASE call.kind = "create" -> createAwaited(store, call)
      [] call.kind = "update" -> updateAwaited(store, call)
      [] call.kind = "get" -> getAwaited(store, call)
      [] OTHER -> deleteAwaited(store, call)

Resume ==
    /\ \E k \in 1..Len(inflight) :
        /\ inflight[k].result.done
        /\ inflight' = Splice(inflight, k)
        /\ Respond(inflight[k].kind, afterAwait(mockRequests, inflight[k]))
    /\ UNCHANGED <<supabase, mockRequests, dbRows, served>>

\* ------------------------------------------------------ GET /api/requests
\* limit = 50, offset = 0 when the query string does not name them.
DefaultLimit == 50

\* A query string; "" stands for a parameter that is absent.  (priority and
\* search are never sent.)
Query(status, serviceType, limit, offset) ==
    [status |-> status, serviceType |-> serviceType, limit |-> limit, offset |-> offset]

NoQuery == Query("", "", DefaultLimit, 0)

\* The query strings GET /api/requests is tried with.
Queries == { NoQuery, Query("pending", "", DefaultLimit, 0), Query("", "delivery", 1, 1) }

\* Array.prototype.slice(start, end), start and end not negative.
Slice(s, start, end) ==
    SubSeq(s, start + 1, IF end < Len(s) THEN end ELSE Len(s))

\* The handler reads mockRequests, whether the data store is configured or
\* not; the response carries the page (its pagination object is left out).
listRequests(store, query) ==
    LET byStatus == IF query.status = "" THEN store
                    ELSE SelectSeq(store, LAMBDA r : r.status = query.status)
        byType == IF query.serviceType = "" THEN byStatus
                  ELSE SelectSeq(byStatus, LAMBDA r : r.serviceType = query.serviceType)
    IN  Reply("list", "", 200, TRUE,
              Slice(byType, query.offset, query.offset + query.limit))

ListRequests ==
    /\ \E query \in Queries : reply' = listRequests(mockRequests, query)
    /\ writes' = <<>>
    /\ calls' = <<>>
    /\ last' = Step("list", 0, sseClients, FALSE)
    /\ UNCHANGED <<now, nextObj, client, response, sseClients, heartbeat, reqOpen,
                   cleanupDue, supabase, mockRequests, dbRows, inflight, served>>
    /\ Record
    /\ UNCHANGED procVars
    /\ UNCHANGED rateVars

\* -------------------------------------------------- GET /api/requests/:id
getMock(store, id) ==
    LET i == findIndex(store, id) IN
    IF i = 0 THEN Reply("get", id, 404, FALSE, <<>>)
    ELSE Reply("get", id, 200, TRUE, store[i])

GetMock ==
    /\ ~supabase
    /\ \E id \in ParamIds : reply' = getMock(mockRequests, id)
    /\ writes' = <<>>
    /\ calls' = <<>>
    /\ last' = Step("get", 0, sseClients, FALSE)
    /\ UNCHANGED <<now, nextObj, client, response, sseClients, heartbeat, reqOpen,
                   cleanupDue, supabase, mockRequests, dbRows, inflight, served>>
    /\ Record
    /\ UNCHANGED procVars
    /\ UNCHANGED rateVars

\* The handler up to its await.
GetSend ==
    /\ supabase /\ served < MaxRequests
    /\ \E id \in ParamIds :
        inflight' = Append(inflight, Awaited("get", id, <<>>))
    /\ served' = served + 1
    /\ reply' = NoReply
    /\ writes' = <<>>
    /\ calls' = <<>>
    /\ last' = Step("get", 0, sseClients, FALSE)
    /\ UNCHANGED <<now, nextObj, client, response, sseClients, heartbeat, reqOpen,
                   cleanupDue, supabase, mockRequests, dbRows>>
    /\ Record
    /\ UNCHANGED procVars
    /\ UNCHANGED rateVars

\* ============================================== the rate limiting middleware
\* The addresses requests come from.
Ips == {"10.0.0.1", "10.0.0.2"}

\* The middleware for a request of ip at the instant t: the Map after it, and
\* whether it called next() (otherwise it answered 429).
\* Mutant: the limit is tested before the request is counted.
rateLimitTestsFirst(counts, ip, t) ==
    IF ~Has(counts, ip)
    THEN [counts |-> Merge(counts, [i \in {ip} |->
                                       [count |-> 1, resetTime |-> t + RATE_LIMIT_WINDOW]]),
          next |-> TRUE]
    ELSE LET clientData == counts[ip]
             after == IF t > clientData.resetTime
                      THEN [count |-> 1, resetTime |-> t + RATE_LIMIT_WINDOW]
                      ELSE [clientData EXCEPT !.count = clientData.count + 1]
         IN  [counts |-> [counts EXCEPT ![ip] = after],
              next |-> ~(clientData.count > MAX_REQUESTS)]

rateLimit(counts, ip, t) ==
    IF ~Has(counts, ip)
    THEN [counts |-> Merge(counts, [i \in {ip} |->
                                       [count |-> 1, resetTime |-> t + RATE_LIMIT_WINDOW]]),
          next |-> TRUE]
    ELSE LET clientData == counts[ip]
             after == IF t > clientData.resetTime
                      THEN [count |-> 1, resetTime |-> t + RATE_LIMIT_WINDOW]
                      ELSE [clientData EXCEPT !.count = clientData.count + 1]
         IN  [counts |-> [counts EXCEPT ![ip] = after],
              next |-> ~(after.count > MAX_REQUESTS)]

\* No instant: the window of a client that has sent no request.
NoTime == 0 - 1

NoVerdict == [ip |-> "", next |-> FALSE, status |-> 0]

\* A window lasts until RATE_LIMIT_WINDOW has passed since it was opened.
Expired(w, t) == w.opened = NoTime \/ t > w.opened + RATE_LIMIT_WINDOW

\* A request of ip reaches the middleware.  A client that is over the limit
\* sends at most MaxOver requests more in that window.
Request(ip) ==
    /\ IF Has(requestCounts, ip) /\ ~(now > requestCounts[ip].resetTime)
       THEN requestCounts[ip].count < MAX_REQUESTS + MaxOver
       ELSE TRUE
    /\ LET r == rateLimit(requestCounts, ip, now)
           w == IF Expired(passedOn[ip], now) THEN [opened |-> now, passed |-> 0]
                ELSE passedOn[ip]
       IN  /\ requestCounts' = r.counts
           /\ verdict' = [ip |-> ip, next |-> r.next,
                          status |-> IF r.next THEN 0 ELSE 429]
           /\ passedOn' = [passedOn EXCEPT ![ip] =
                               [w EXCEPT !.passed = IF r.next THEN w.passed + 1
                                                   ELSE w.passed]]
    /\ writes' = <<>>
    /\ calls' = <<>>
    /\ last' = Step("request", 0, sseClients, FALSE)
    /\ reply' = NoReply
    /\ UNCHANGED <<now, nextObj, client, response, sseClients, heartbeat, reqOpen,
                   cleanupDue>>
    /\ UNCHANGED storeVars
    /\ Record
    /\ UNCHANGED procVars

\* Time passes, one rate-limit window at a time.
TickRate ==
    /\ now < MaxWindows * RATE_LIMIT_WINDOW
    /\ now' = now + RATE_LIMIT_WINDOW
    /\ writes' = <<>>
    /\ calls' = <<>>
    /\ last' = Step("", 0, sseClients, FALSE)
    /\ reply' = NoReply
    /\ UNCHANGED <<nextObj, client, response, sseClients, heartbeat, reqOpen,
                   cleanupDue>>
    /\ UNCHANGED storeVars
    /\ Record
    /\ UNCHANGED procVars
    /\ UNCHANGED rateVars

\* The process runs and its server listens.
NoExit == 0 - 1

InitProc ==
    /\ listening = TRUE
    /\ forceTimers = {}
    /\ exitCode = NoExit

InitRate ==
    /\ requestCounts = [i \in {} |-> 0]
    /\ verdict = NoVerdict
    /\ passedOn = [i \in Ips |-> [opened |-> NoTime, passed |-> 0]]

InitStore ==
    /\ mockRequests = SeedRequests
    /\ dbRows = SeedRequests
    /\ inflight = <<>>
    /\ served = 0
    /\ reply = NoReply

\* The registry on its own: the request routes are not called.
Init == InitRegistry /\ InitStore /\ InitRate /\ InitProc /\ supabase = FALSE /\ recording = FALSE

\* The request routes, with the data store configured or not.
InitApi ==
    InitRegistry /\ InitStore /\ InitRate /\ InitProc /\ supabase \in BOOLEAN /\ recording = FALSE

\* ------------------------------------------------------------------- Next
Next ==
    \/ Tick
    \/ Admit
    \/ SinkFails
    \/ \E c \in Objs : HeartbeatTick(c)
    \/ \E c \in Objs : Close(c)
    \/ \E c \in Objs : Error(c)
    \/ Broadcast
    \/ SendTo
    \/ Cleanup

Spec == Init /\ [][Next]_vars

\* The request routes driving the registry: subscribers connect and their
\* transports fail while requests are served.  The clock stands still; the
\* sample rows carry earlier instants.
AdmitApi == nextObj < MaxSubscribers /\ Admit

NextApi ==
    \/ AdmitApi
    \/ SinkFails
    \/ CreateMock
    \/ UpdateMock
    \/ DeleteMock
    \/ CreateSend
    \/ UpdateSend
    \/ DeleteSend
    \/ DbExec
    \/ Resume

SpecApi == InitApi /\ [][NextApi]_vars

\* The request routes with their reads: requests are created and deleted, and
\* the list and single requests are fetched in between.
NextRead ==
    \/ CreateMock
    \/ DeleteMock
    \/ CreateSend
    \/ DeleteSend
    \/ DbExec
    \/ Resume
    \/ ListRequests
    \/ GetMock
    \/ GetSend

SpecRead == InitApi /\ [][NextRead]_vars

\* The streams of the subscribers recorded while requests are served, time
\* passes and the heartbeats run.
InitOrder ==
    InitRegistry /\ InitStore /\ InitRate /\ InitProc /\ supabase = FALSE /\ recording = TRUE

TickApi == now < MaxApiTicks * TickStep /\ Tick

NextOrder ==
    \/ TickApi
    \/ AdmitApi
    \/ \E c \in Objs : HeartbeatTick(c)
    \/ CreateMock
    \/ UpdateMock
    \/ DeleteMock

SpecOrder == InitOrder /\ [][NextOrder]_vars

\* The timers on schedule: the clock is observed once per heartbeat period,
\* and every heartbeat that is due runs before the next period starts.  The
\* reaper runs before or after the heartbeats that are due at the same instant.
TickBeat ==
    /\ now < MaxTime
    /\ \A c \in Objs : ~HeartbeatDue(c)
    /\ now' = now + HeartbeatPeriod
    /\ cleanupDue' = Overdue(cleanupDue, now')
    /\ writes' = <<>>
    /\ calls' = <<>>
    /\ last' = Step("", 0, sseClients, FALSE)
    /\ UNCHANGED <<nextObj, client, response, sseClients, heartbeat, reqOpen>>
    /\ reply' = NoReply
    /\ UNCHANGED storeVars
    /\ Record
    /\ UNCHANGED procVars
    /\ UNCHANGED rateVars

NextBeat ==
    \/ TickBeat
    \/ AdmitApi
    \/ SinkFails
    \/ \E c \in Objs : HeartbeatTick(c)
    \/ Cleanup

SpecBeat == Init /\ [][NextBeat]_vars

\* The streams recorded while broadcasts, direct sends and heartbeats reach
\* them, transports fail and time passes.
BroadcastStream == Len(invoked) < MaxRequests /\ Broadcast

SendToStream == (\A c \in Objs : Len(sink[c]) < MaxLines) /\ SendTo

NextStream ==
    \/ TickApi
    \/ AdmitApi
    \/ SinkFails
    \/ \E c \in Objs : HeartbeatTick(c)
    \/ BroadcastStream
    \/ SendToStream

SpecStream == InitOrder /\ [][NextStream]_vars

\* The rate limiter on its own: requests of the clients arrive while time
\* passes; what the routes do with a request that is passed on is left out.
NextRate ==
    \/ TickRate
    \/ \E ip \in Ips : Request(ip)

SpecRate == Init /\ [][NextRate]_vars

\* ------------------------------------------------- the registry under fairness
\* Time without a horizon: once the clock has reached MaxTime every stored
\* instant is moved back by one step instead.  Instants are only compared with
\* now, and an age of MaxTime or more is past every threshold of the code, so
\* the comparisons the handlers make are preserved.
Earlier(t) == IF t >= TickStep THEN t - TickStep ELSE 0

TickLive ==
    /\ IF now < MaxTime
       THEN /\ now' = now + TickStep
            /\ cleanupDue' = Overdue(cleanupDue, now')
            /\ UNCHANGED client
       ELSE /\ now' = now
            /\ client' = [c \in Objs |->
                             IF heartbeat[c] \/ c \in Range(sseClients)
                             THEN [id |-> Earlier(client[c].id),
                                   lastPing |-> Earlier(client[c].lastPing)]
                             ELSE client[c]]
            /\ cleanupDue' = Overdue(Earlier(cleanupDue), now)
    /\ writes' = <<>>
    /\ calls' = <<>>
    /\ last' = Step("", 0, sseClients, FALSE)
    /\ UNCHANGED <<nextObj, response, sseClients, heartbeat, reqOpen>>
    /\ reply' = NoReply
    /\ UNCHANGED storeVars
    /\ Record
    /\ UNCHANGED procVars
    /\ UNCHANGED rateVars

\* No close or error signal is delivered and nobody broadcasts: only the
\* timers act on the registry.
NextLive ==
    \/ TickLive
    \/ Admit
    \/ SinkFails
    \/ \E c \in Objs : HeartbeatTick(c)
    \/ Cleanup

\* The event loop runs every due timer callback, and time passes.
SpecLive ==
    /\ Init
    /\ [][NextLive]_vars
    /\ WF_vars(TickLive)
    /\ WF_vars(Cleanup)
    /\ \A c \in Objs : WF_vars(HeartbeatTick(c))

\* ============================================================ the shutdown
\* gracefulShutdown runs on SIGTERM, SIGINT, an uncaught exception and an
\* unhandled rejection alike; the signal is only logged.
Signals == {"SIGTERM", "SIGINT", "UNCAUGHT_EXCEPTION", "UNHANDLED_REJECTION"}

ForceDelay == 10000

Running == exitCode = NoExit

\* Mutant: the forced-shutdown timer is not armed.
ArmForceNever(timers, t) == timers

\* setTimeout(() => process.exit(1), 10000)
ArmForce(timers, t) == timers \cup {t + ForceDelay}

\* server.close(callback): the server stops listening at once; its close
\* event, and with it the callback, waits until every connection has ended.
gracefulShutdown(signal) ==
    /\ Running
    /\ Cardinality(forceTimers) < MaxSignals
    /\ listening' = FALSE
    /\ forceTimers' = ArmForce(forceTimers, now)
    /\ UNCHANGED exitCode
    /\ writes' = <<>>
    /\ calls' = <<>>
    /\ last' = Step(signal, 0, sseClients, FALSE)
    /\ reply' = NoReply
    /\ UNCHANGED <<now, nextObj, client, response, sseClients, heartbeat, reqOpen,
                   cleanupDue>>
    /\ UNCHANGED storeVars
    /\ Record
    /\ UNCHANGED rateVars

\* No connection to the server is open.
Drained == \A c \in Objs : ~reqOpen[c]

\* The close event of the server: requestCounts.clear(); process.exit(0).
ServerClosed ==
    /\ Running /\ ~listening /\ Drained
    /\ requestCounts' = [i \in {} |-> 0]
    /\ exitCode' = 0
    /\ UNCHANGED <<listening, forceTimers, verdict, passedOn>>
    /\ writes' = <<>>
    /\ calls' = <<>>
    /\ last' = Step("exit", 0, sseClients, FALSE)
    /\ reply' = NoReply
    /\ UNCHANGED <<now, nextObj, client, response, sseClients, heartbeat, reqOpen,
                   cleanupDue>>
    /\ UNCHANGED storeVars
    /\ Record

\* A forced-shutdown timer that is due fires: process.exit(1).
ForceExit ==
    /\ Running
    /\ \E due \in forceTimers : now >= due
    /\ exitCode' = 1
    /\ UNCHANGED <<listening, forceTimers>>
    /\ writes' = <<>>
    /\ calls' = <<>>
    /\ last' = Step("exit", 0, sseClients, FALSE)
    /\ reply' = NoReply
    /\ UNCHANGED <<now, nextObj, client, response, sseClients, heartbeat, reqOpen,
                   cleanupDue>>
    /\ UNCHANGED storeVars
    /\ Record
    /\ UNCHANGED rateVars

\* The earliest due time of the armed timers.
NextDue == CHOOSE due \in forceTimers : \A other \in forceTimers : due <= other

\* Time passes until the earliest forced-shutdown timer is due.
TickForce ==
    /\ Running
    /\ forceTimers # {} /\ now < NextDue
    /\ now' = NextDue
    /\ cleanupDue' = Overdue(cleanupDue, now')
    /\ writes' = <<>>
    /\ calls' = <<>>
    /\ last' = Step("", 0, sseClients, FALSE)
    /\ UNCHANGED <<nextObj, client, response, sseClients, heartbeat, reqOpen>>
    /\ reply' = NoReply
    /\ UNCHANGED storeVars
    /\ Record
    /\ UNCHANGED rateVars
    /\ UNCHANGED procVars

\* The registry while the process runs; connections are admitted while the
\* server listens.
TickShut == Running /\ Tick
AdmitShut == Running /\ listening /\ nextObj < MaxSubscribers /\ Admit
HeartbeatShut(c) == Running /\ HeartbeatTick(c)
CloseShut(c) == Running /\ Close(c)
CleanupShut == Running /\ Cleanup

NextShut ==
    \/ TickShut
    \/ AdmitShut
    \/ \E c \in Objs : HeartbeatShut(c)
    \/ \E c \in Objs : CloseShut(c)
    \/ CleanupShut
    \/ \E signal \in Signals : gracefulShutdown(signal)
    \/ TickForce
    \/ ServerClosed
    \/ ForceExit

\* The event loop runs the close callback and every due timer callback, and
\* time passes while a timer is armed.
SpecShut ==
    /\ Init
    /\ [][NextShut]_vars
    /\ WF_vars(TickForce)
    /\ WF_vars(ServerClosed)
    /\ WF_vars(ForceExit)

\* ===================================================================== claims
Registered == Range(sseClients)

\* The clients in the registry when the last step started.
Before == Registered \cup last.evicted

\* Client c was written the whole frame of the event, event line then data line.
GotFrame(ws, c, eventType) ==
    \E i \in 1..Len(ws) - 1 :
        /\ ws[i] = Wr(c, "event", eventType, eventType, "ok")
        /\ ws[i + 1].client = c /\ ws[i + 1].line = "data"
        /\ ws[i + 1].type = eventType /\ ws[i + 1].outcome = "ok"
        /\ ws[i + 1].data.type = eventType

WritesTo(ws, c) == {i \in 1..Len(ws) : ws[i].client = c}

\* C1: after a broadcastToClients call, every connection that was registered
\* when it started has received the frame if its writes succeed, and is out of
\* the registry if its stream is destroyed or its write throws.
C1_BroadcastDeliversOrPrunes ==
    [][last'.op = "broadcast" =>
        \A c \in Range(sseClients) :
            /\ WriteOutcome(response[c]) = "ok"
                 => GotFrame(writes', c, calls'[1].type) /\ c \in Range(sseClients')
            /\ (IsDestroyed(response[c]) \/ WriteOutcome(response[c]) = "throw")
                 => c \notin Range(sseClients')]_vars

C1_Witness ==
    /\ last.op = "broadcast"
    /\ last.evicted # {}
    /\ \E c \in Registered : GotFrame(writes, c, calls[1].type)

\* C2: a write that throws during a broadcast does not keep the frame from any
\* other registered connection, before or after the failing one in iteration
\* order, and no exception leaves broadcastToClients.
C2_FailureIsolated ==
    (last.op = "broadcast" /\ \E i \in 1..Len(writes) : writes[i].outcome = "throw")
        => /\ ~last.threw
           /\ \A c \in Before :
                response[c] = "open" => GotFrame(writes, c, calls[1].type)

\* A throwing connection sat before a healthy one in iteration order.
C2_Witness ==
    /\ last.op = "broadcast"
    /\ \E i \in 1..Len(writes) :
        /\ writes[i].outcome = "throw"
        /\ \E j \in 1..Len(writes) : j > i /\ writes[j].outcome = "ok"

\* C3: once a connection has been removed from the registry no step writes
\* to its stream: every write goes to a connection that was registered when
\* the step started or that the step admits.
C3_NoWriteAfterRemoval ==
    [][\A i \in 1..Len(writes') :
          \/ writes'[i].client \in Range(sseClients)
          \/ writes'[i].client > nextObj]_vars

\* The event type the spec gives each kind of mutation.
EventFor(op) ==
    CASE op = "create" -> "request-created"
      [] op = "update" -> "request-updated"
      [] OTHER -> "request-deleted"

\* C4: a create, update or delete that is answered with success has called
\* broadcastToClients exactly once, with the type of its kind, after the
\* store change (the mock store already changed at the call; the data store
\* had answered without error), and with the resulting record, or for a
\* delete the request id, as payload.
C4_SuccessBroadcastsOnce ==
    [][reply'.success =>
        /\ Len(calls') = 1
        /\ calls'[1].type = EventFor(reply'.op)
        /\ IF supabase
           THEN \E k \in 1..Len(inflight) :
                    /\ inflight' = Splice(inflight, k)
                    /\ inflight[k].kind = reply'.op
                    /\ inflight[k].result.done /\ inflight[k].result.error = ""
                    /\ IF reply'.op = "delete"
                       THEN calls'[1].data.request_id = inflight[k].id
                       ELSE /\ calls'[1].data.request = inflight[k].result.data
                            /\ reply'.data = inflight[k].result.data
           ELSE /\ calls'[1].store = mockRequests'
                /\ CASE reply'.op = "create" ->
                            /\ mockRequests' = <<calls'[1].data.request>> \o mockRequests
                            /\ reply'.data = calls'[1].data.request
                     [] reply'.op = "update" ->
                            /\ \E i \in 1..Len(mockRequests') :
                                    mockRequests'[i] = calls'[1].data.request
                            /\ calls'[1].data.request.request_id = reply'.id
                            /\ reply'.data = calls'[1].data.request
                     [] OTHER ->
                            /\ calls'[1].data.request_id = reply'.id
                            /\ Len(mockRequests') = Len(mockRequests) - 1]_vars

\* A successful delete was broadcast to a subscriber.
C4_Witness ==
    /\ reply.success /\ reply.op = "delete"
    /\ Len(calls) = 1
    /\ \E i \in 1..Len(writes) : writes[i].outcome = "ok"

\* C5: a create, update or delete that is not answered with success (400,
\* 404 or 500) has not called broadcastToClients, has written to no
\* subscriber, and has left the mock store as it was.
C5_FailureIsSilent ==
    [][(reply'.op # "" /\ ~reply'.success) =>
        /\ calls' = <<>>
        /\ writes' = <<>>
        /\ sseClients' = sseClients
        /\ mockRequests' = mockRequests]_vars

\* The data store answered an error while a subscriber was registered.
C5_Witness ==
    /\ reply.code = 500
    /\ supabase
    /\ Registered # {}

\* C6: a registered connection whose stream has died is eventually removed
\* by the heartbeat or the reaper, with no close or error signal and no
\* broadcast.
C6_DeadSinkEventuallyRemoved ==
    \A c \in Objs :
        (c \in Registered /\ response[c] \in {"destroyed", "throws"})
            ~> (c \notin Registered)

\* C7: a reaper pass removes, and ends the stream of, exactly the connections
\* whose age now - lastPing is above the 5-minute threshold; a connection at or
\* below the threshold stays.  (A stream that is already destroyed is not
\* ended again.)
C7_ReaperRemovesExactlyStale ==
    [][last'.op = "cleanup" =>
        \A c \in Range(sseClients) :
            IF now - client[c].lastPing > 300000
            THEN /\ c \notin Range(sseClients')
                 /\ ~IsDestroyed(response[c])
                      => \E i \in WritesTo(writes', c) : writes'[i].line = "end"
                 /\ response[c] = "open" => response'[c] = "ended"
            ELSE /\ c \in Range(sseClients')
                 /\ response'[c] = response[c]
                 /\ WritesTo(writes', c) = {}]_vars

\* One pass reaped a connection and kept another one that is exactly at the
\* threshold.
C7_Witness ==
    /\ last.op = "cleanup"
    /\ \E c \in last.evicted : response[c] = "ended"
    /\ \E c \in Registered : now - client[c].lastPing = 300000

\* C8: a heartbeat whose write does not reach the stream (stream closed, or
\* the write throws) removes the connection in that same tick.
C8_FailedHeartbeatRemoves ==
    [][\A c \in Objs :
          (last'.op = "heartbeat" /\ last'.client = c
              /\ c \in Range(sseClients) /\ WriteOutcome(response[c]) # "ok")
            => c \notin Range(sseClients')]_vars

\* C9: the close or error handler of a connection removes it from the registry
\* in its own step, and a removed connection never comes back.
C9_SignalRemoves ==
    [][\A c \in Objs :
          /\ (last'.op \in {"close", "error"} /\ last'.client = c)
                => c \notin Range(sseClients')
          /\ (c <= nextObj /\ c \notin Range(sseClients))
                => c \notin Range(sseClients')]_vars

\* A close signal removed a connection whose heartbeat was due and that the
\* reaper would have taken.
C9_Witness ==
    /\ last.op \in {"close", "error"}
    /\ last.evicted = {last.client}
    /\ now >= cleanupDue
    /\ now > 0

\* C11: in every interleaving the registry holds exactly the connections
\* admitted and not yet removed: an admission appends the new connection and
\* nothing else, every other step takes out exactly the connections its path
\* removes (signalled, heartbeat threw, stale, destroyed or throwing during a
\* broadcast, throwing addressee of a direct send) and keeps every other one in
\* place, and the size the stats report is the number of registered ones.
C11_RegistryExact ==
    [][LET op == last'.op
           t == last'.client
           Removed(c) ==
               CASE op \in {"close", "error"} -> c = t
                 [] op = "heartbeat" -> c = t /\ WriteOutcome(response[c]) = "throw"
                 [] op = "cleanup" -> now - client[c].lastPing > 300000
                 [] op = "broadcast" ->
                        IsDestroyed(response[c]) \/ WriteOutcome(response[c]) = "throw"
                 [] op = "sendTo" -> c = t /\ WriteOutcome(response[c]) = "throw"
                 [] OTHER -> FALSE
       IN  /\ IF op = "admit"
              THEN /\ t \notin Range(sseClients)
                   /\ sseClients' = Append(sseClients, t)
              ELSE sseClients' = SelectSeq(sseClients, LAMBDA c : ~Removed(c))
           /\ Cardinality(Range(sseClients')) = Len(sseClients')
           /\ getConnectionStats(sseClients', response', now').totalConnections
                 = Cardinality(Range(sseClients'))]_vars

\* A removal took one connection out while another, admitted later, stayed.
C11_Witness ==
    /\ last.op \in {"close", "error", "heartbeat", "cleanup", "broadcast", "sendTo"}
    /\ \E c \in last.evicted : \E d \in Registered : d > c
    /\ getConnectionStats(sseClients, response, now).totalConnections = 1

\* The data lines of mutation events on the stream of client c.
EventLines(c) ==
    SelectSeq(sink[c], LAMBDA w : w.line = "data" /\ w.type \in EventTypes)

\* The data lines (acknowledgement, heartbeats, events) on the stream of c.
DataLines(c) == SelectSeq(sink[c], LAMBDA w : w.line = "data")

\* C12: on the stream of a registered connection the mutation events are the
\* latest broadcastToClients calls, in the order of the calls, and all frames
\* (acknowledgement, heartbeats, events) are in the order they were issued:
\* their timestamps never go back.
C12_StreamOrder ==
    recording =>
        \A c \in Registered :
            LET ev == EventLines(c)
                k == Len(ev)
                n == Len(invoked)
                dl == DataLines(c)
            IN  /\ k <= n
                /\ \A i \in 1..k :
                      /\ ev[i].data.type = invoked[n - k + i].type
                      /\ ev[i].data.data = invoked[n - k + i].data
                /\ \A i \in 1..Len(dl) - 1 :
                      dl[i].data.timestamp.iso <= dl[i + 1].data.timestamp.iso
                /\ Len(dl) > 0 /\ dl[1].type = "connected"

\* A stream carried a created event, then a heartbeat, then another event.
C12_Witness ==
    /\ recording
    /\ \E c \in Registered :
        \E i, j, k \in 1..Len(sink[c]) :
            /\ i < j /\ j < k
            /\ sink[c][i].line = "data" /\ sink[c][i].type = "request-created"
            /\ sink[c][j].type = "heartbeat"
            /\ sink[c][k].line = "data"
            /\ sink[c][k].type \in {"request-updated", "request-deleted"}

\* C13: a removal of a connection that is already out of the registry (a close
\* after an error, a close or error after a failed heartbeat, a reaper pass or
\* a pruning broadcast) changes neither the registry nor any other connection,
\* writes nothing and raises no error.
C13_RemoveIdempotent ==
    [][\A c \in Objs :
          (last'.op \in {"close", "error"} /\ last'.client = c
              /\ c \notin Range(sseClients))
            => /\ sseClients' = sseClients
               /\ \A d \in Objs \ {c} :
                     /\ client'[d] = client[d]
                     /\ response'[d] = response[d]
                     /\ heartbeat'[d] = heartbeat[d]
               /\ writes' = <<>>
               /\ ~last'.threw]_vars

\* A second removal signal arrived while another connection was registered.
C13_Witness ==
    /\ last.op \in {"close", "error"}
    /\ last.evicted = {}
    /\ Registered # {}

\* C14: every step that removes a connection on the heartbeat, broadcast,
\* direct-send or reaper path calls end() on its stream in that step, unless
\* the stream is already destroyed.
C14_RemovalClosesSink ==
    [][last'.op \in {"heartbeat", "broadcast", "sendTo", "cleanup"} =>
        \A c \in Range(sseClients) \ Range(sseClients') :
            \/ IsDestroyed(response[c])
            \/ \E i \in WritesTo(writes', c) : writes'[i].line = "end"]_vars

\* C15: with the heartbeats running every 30 s, a registered connection whose
\* heartbeat writes do not throw is at most one heartbeat period old at every
\* reaper pass, and no reaper pass removes it.
C15_ReaperSparesLive ==
    [][last'.op = "cleanup" =>
        \A c \in Range(sseClients) :
            WriteOutcome(response[c]) # "throw"
              => /\ now - client[c].lastPing <= 30000
                 /\ c \in Range(sseClients')]_vars

\* A reaper pass at 5 minutes or later met a connection whose next heartbeat
\* was due at that instant, and kept it.
C15_Witness ==
    /\ last.op = "cleanup"
    /\ now >= 300000
    /\ \E c \in Registered : now - client[c].lastPing = 30000

\* C16: a throw while the reaper ends one stream or a heartbeat writes to one
\* stream stops nothing else: the pass still removes every stale connection,
\* no exception leaves the callback, the reaper is scheduled again and runs
\* again and again, the heartbeat timers of the other connections are left
\* alone, and a heartbeat timer fires again and again for as long as it is
\* active.
C16_ScheduleSurvives ==
    /\ [][/\ last'.op = "cleanup" =>
              /\ ~last'.threw
              /\ cleanupDue' = now + 300000
              /\ \A c \in Range(sseClients) :
                    now - client[c].lastPing > 300000 => c \notin Range(sseClients')
          /\ \A c \in Objs :
                (last'.op = "heartbeat" /\ last'.client = c) =>
                    /\ ~last'.threw
                    /\ \A d \in Objs \ {c} : heartbeat'[d] = heartbeat[d]]_vars
    /\ []<>(last.op = "cleanup")
    /\ \A d \in Objs :
          []<>(~heartbeat[d] \/ (last.op = "heartbeat" /\ last.client = d))

\* One reaper pass met a stream whose end() threw and went on to end another.
C16_Witness ==
    /\ last.op = "cleanup"
    /\ \E i, j \in 1..Len(writes) :
          /\ i < j
          /\ writes[i].line = "end" /\ writes[i].outcome = "throw"
          /\ writes[j].line = "end" /\ writes[j].outcome = "ok"

\* C17: when a write to a subscriber throws during the broadcast of a create,
\* update or delete, the request is still answered with success, no exception
\* reaches the handler, and the store change stays: the mock store is the one
\* the broadcast was called with, the rows of the data store are not touched.
C17_WriteFailureKeepsSuccess ==
    [][(last'.op \in {"create", "update", "delete"}
            /\ \E i \in 1..Len(writes') : writes'[i].outcome = "throw")
        => /\ reply'.success
           /\ reply'.code \in {200, 201}
           /\ ~last'.threw
           /\ Len(calls') = 1
           /\ IF supabase THEN dbRows' = dbRows /\ mockRequests' = mockRequests
              ELSE /\ mockRequests' = calls'[1].store
                   /\ CASE last'.op = "create" -> mockRequests'[1] = reply'.data
                        [] last'.op = "update" ->
                              \E i \in 1..Len(mockRequests') :
                                  mockRequests'[i] = reply'.data
                        [] OTHER -> Len(mockRequests') = Len(mockRequests) - 1]_vars

\* Every write of the broadcast of a successful request threw, and the
\* registry is empty afterwards.
C17_Witness ==
    /\ last.op \in {"create", "update", "delete"}
    /\ reply.success
    /\ writes # <<>>
    /\ \A i \in 1..Len(writes) : writes[i].outcome = "throw"
    /\ last.evicted # {} /\ Registered = {}

\* The lines of one kind written to client c.
LinesTo(ws, c, line) == {i \in WritesTo(ws, c) : ws[i].line = line}

\* C18: one broadcastToClients call writes the event line and the data line
\* exactly once to every registered connection whose stream is open, at most
\* once to any connection, and nothing to a connection that is not in the
\* registry when the call starts, also when entries are deleted during the
\* iteration.
C18_ExactlyOnce ==
    [][last'.op = "broadcast" =>
        \A c \in Objs :
            /\ Cardinality(LinesTo(writes', c, "event")) <= 1
            /\ Cardinality(LinesTo(writes', c, "data")) <= 1
            /\ (c \in Range(sseClients) /\ response[c] = "open")
                  => /\ Cardinality(LinesTo(writes', c, "event")) = 1
                     /\ Cardinality(LinesTo(writes', c, "data")) = 1
                     /\ GotFrame(writes', c, calls'[1].type)
            /\ c \notin Range(sseClients) => WritesTo(writes', c) = {}]_vars

\* A destroyed connection was pruned during the iteration and the connection
\* after it got the frame.
C18_Witness ==
    /\ last.op = "broadcast"
    /\ \E c \in last.evicted : \E d \in Registered :
          /\ c < d
          /\ WritesTo(writes, c) = {}
          /\ Cardinality(LinesTo(writes, d, "event")) = 1
          /\ Cardinality(LinesTo(writes, d, "data")) = 1

\* C19: a heartbeat run for a registered connection whose stream is open
\* writes one heartbeat message to that connection and to no other, sets its
\* lastPing to the current time, and changes neither another connection nor
\* the registry.
C19_HeartbeatTouchesOne ==
    [][\A c \in Objs :
          (last'.op = "heartbeat" /\ last'.client = c
              /\ c \in Range(sseClients) /\ WriteOutcome(response[c]) = "ok")
            => /\ Len(writes') = 1
               /\ writes'[1].client = c
               /\ writes'[1].type = "heartbeat" /\ writes'[1].data.type = "heartbeat"
               /\ writes'[1].outcome = "ok"
               /\ client'[c].lastPing = now
               /\ client'[c].id = client[c].id
               /\ \A d \in Objs \ {c} : client'[d] = client[d]
               /\ response' = response
               /\ sseClients' = sseClients
               /\ heartbeat' = heartbeat]_vars

\* A heartbeat refreshed one connection while another one kept an older
\* lastPing.
C19_Witness ==
    /\ last.op = "heartbeat"
    /\ last.client \in Registered
    /\ client[last.client].lastPing = now
    /\ client[last.client].id < now
    /\ \E d \in Registered : client[d].lastPing < now

\* C20: sendToClient with an id that no registered connection has writes
\* nothing and changes nothing; with an id that is present it writes to one
\* connection that has the id, the whole frame if its stream is open, and
\* neither writes to nor changes any other connection.
C20_SendToAddressesOne ==
    [][last'.op = "sendTo" =>
        LET holders == {c \in Range(sseClients) : client[c].id = last'.id} IN
        IF holders = {}
        THEN /\ writes' = <<>>
             /\ sseClients' = sseClients
             /\ response' = response
             /\ client' = client
             /\ heartbeat' = heartbeat
        ELSE \E t \in holders :
                /\ \A i \in 1..Len(writes') : writes'[i].client = t
                /\ response[t] = "open"
                      => /\ GotFrame(writes', t, "request-updated")
                         /\ Len(writes') = 2
                /\ \A d \in Objs \ {t} :
                      /\ d \in Range(sseClients) <=> d \in Range(sseClients')
                      /\ response'[d] = response[d]
                      /\ client'[d] = client[d]]_vars

\* sendToClient was called with an id nobody has while a connection was
\* registered.
C20_Witness ==
    /\ last.op = "sendTo"
    /\ last.id = AbsentId
    /\ Registered # {}
    /\ writes = <<>>

\* C21: when sendToClient addresses a registered connection whose stream is
\* destroyed or whose write throws, the connection is out of the registry when
\* the call returns, and no exception leaves the call.
C21_SendToPrunes ==
    [][last'.op = "sendTo" =>
        /\ ~last'.threw
        /\ \A c \in Range(sseClients) :
              (last'.client = c
                  /\ (IsDestroyed(response[c]) \/ WriteOutcome(response[c]) = "throw"))
                => c \notin Range(sseClients')]_vars

\* C22: an admission appends exactly one connection, which was not registered
\* before, with lastPing (and id) equal to the time of the admission; its only
\* write is the connected acknowledgement, to the stream of the new connection;
\* no connection registered before is written to or changed.
C22_AdmitTouchesOne ==
    [][last'.op = "admit" =>
        LET t == last'.client IN
        /\ t \notin Range(sseClients)
        /\ sseClients' = Append(sseClients, t)
        /\ Len(sseClients') = Len(sseClients) + 1
        /\ client'[t].lastPing = now /\ now' = now
        /\ Len(writes') = 1
        /\ writes'[1].client = t
        /\ writes'[1].line = "data" /\ writes'[1].type = "connected"
        /\ writes'[1].data.type = "connected"
        /\ writes'[1].outcome = "ok"
        /\ \A d \in Objs \ {t} :
              /\ client'[d] = client[d]
              /\ response'[d] = response[d]
              /\ heartbeat'[d] = heartbeat[d]
              /\ WritesTo(writes', d) = {}]_vars

\* A connection was admitted after the clock had moved, next to one that was
\* registered before and keeps its older lastPing.
C22_Witness ==
    /\ last.op = "admit"
    /\ now > 0
    /\ client[last.client].lastPing = now
    /\ \E d \in Registered : d # last.client /\ client[d].lastPing < now
    /\ Len(writes) = 1 /\ writes[1].client = last.client

\* The lines of mutation events, event lines and data lines, on the stream of c.
FrameLines(c) == SelectSeq(sink[c], LAMBDA w : w.type \in EventTypes)

\* C23: the stream of a connection carries no event of a broadcastToClients
\* call that had returned when the connection was admitted: at every later
\* step its events are frames of calls made after its admission, one frame at
\* most for each of them.
C23_NoReplay ==
    recording =>
        \A c \in Registered :
            LET ev == EventLines(c)
                n == Len(invoked)
                since == n - joined[c]
            IN  /\ joined[c] <= n
                /\ Len(ev) <= since
                /\ Len(FrameLines(c)) <= 2 * since
                /\ \A i \in 1..Len(ev) :
                      \E j \in joined[c] + 1..n :
                          /\ ev[i].data.type = invoked[j].type
                          /\ ev[i].data.data = invoked[j].data

\* A connection was admitted after one call had returned, and has received
\* the event of a later call and a heartbeat.
C23_Witness ==
    /\ recording
    /\ \E c \in Registered :
          /\ joined[c] >= 1
          /\ Len(invoked) > joined[c]
          /\ Len(EventLines(c)) = Len(invoked) - joined[c]
          /\ \E i \in 1..Len(sink[c]) : sink[c][i].type = "heartbeat"

\* C24: a broadcastToClients call made while the registry is empty returns
\* without an exception, writes nothing, leaves the registry empty, and keeps
\* nothing: no part of the state of the registry, the timers or the streams
\* is changed by it.
C24_EmptyBroadcastIsNoOp ==
    [][(last'.op = "broadcast" /\ sseClients = <<>>) =>
        /\ Len(calls') = 1
        /\ ~last'.threw
        /\ writes' = <<>>
        /\ sseClients' = <<>>
        /\ UNCHANGED <<now, nextObj, client, response, heartbeat, reqOpen,
                       cleanupDue, storeVars>>]_vars

\* A broadcast met an empty registry after a connection had been pruned from
\* it, while the heartbeat timer of that connection was still active.
C24_Witness ==
    /\ last.op = "broadcast"
    /\ Before = {}
    /\ writes = <<>>
    /\ \E c \in Objs : heartbeat[c]

\* C25: a broadcastToClients call changes the registry only by taking out
\* connections whose stream is destroyed or whose write threw: no connection
\* is added, the remaining ones keep their order, a connection whose writes
\* succeeded stays, and no lastPing (and no id) is changed.
C25_BroadcastOnlyPrunes ==
    [][last'.op = "broadcast" =>
        /\ Range(sseClients') \subseteq Range(sseClients)
        /\ sseClients' = SelectSeq(sseClients, LAMBDA c : c \in Range(sseClients'))
        /\ \A c \in Range(sseClients) \ Range(sseClients') :
              IsDestroyed(response[c])
                \/ \E i \in WritesTo(writes', c) : writes'[i].outcome = "throw"
        /\ \A c \in Range(sseClients) :
              (WritesTo(writes', c) # {}
                  /\ \A i \in WritesTo(writes', c) : writes'[i].outcome = "ok")
                => c \in Range(sseClients')
        /\ client' = client
        /\ nextObj' = nextObj]_vars

\* A broadcast pruned one connection and delivered to another whose lastPing
\* stays behind the clock.
C25_Witness ==
    /\ last.op = "broadcast"
    /\ last.evicted # {}
    /\ \E c \in Registered :
          /\ GotFrame(writes, c, calls[1].type)
          /\ client[c].lastPing < now

\* C26: every message written to a stream, the connected acknowledgement
\* excepted, is an event line with the type followed by a data line, and the
\* object in its data line has the fields type, data and timestamp.
C26_EveryMessageFramed ==
    [][\A i \in 1..Len(writes') :
          (writes'[i].line = "data" /\ writes'[i].type # "connected") =>
              /\ i > 1
              /\ writes'[i - 1] = Wr(writes'[i].client, "event", writes'[i].type,
                                     writes'[i].type, writes'[i].outcome)
              /\ DOMAIN writes'[i].data = {"type", "data", "timestamp"}
              /\ writes'[i].data.type = writes'[i].type]_vars

\* C27: at every instant getConnectionStats reports the number of registered
\* connections as total, the number of those whose stream is not destroyed as
\* active, and the number of those the reaper would remove at that instant
\* (age above its staleness threshold) as stale; active and stale are at most
\* total.
C27_StatsMatchReaper ==
    LET st == getConnectionStats(sseClients, response, now) IN
    /\ st.totalConnections = Cardinality(Registered)
    /\ st.activeConnections = Cardinality({c \in Registered : response[c] # "destroyed"})
    /\ st.oldConnections = Cardinality({c \in Registered : IsStale(c, now)})
    /\ st.activeConnections <= st.totalConnections
    /\ st.oldConnections <= st.totalConnections

\* C28: the clock never goes back, and from one step to the next the
\* lastPing of a connection that stays registered never decreases: a
\* heartbeat sets it to the current time, which is at least the value the
\* admission or an earlier heartbeat stored, and no other step writes it.
C28_LastPingMonotone ==
    [][/\ now' >= now
       /\ \A c \in Range(sseClients) \cap Range(sseClients') :
             /\ client'[c].lastPing >= client[c].lastPing
             /\ client'[c].lastPing # client[c].lastPing
                   => (last'.op = "heartbeat" /\ last'.client = c
                          /\ client'[c].lastPing = now)]_vars

\* A heartbeat moved the lastPing of a connection that had been admitted
\* after the start of the clock.
C28_Witness ==
    /\ last.op = "heartbeat"
    /\ last.client \in Registered
    /\ client[last.client].id > 0
    /\ client[last.client].lastPing = now
    /\ client[last.client].lastPing > client[last.client].id

\* C29: of the requests of one client at most 100 are passed on to the routes
\* in one window of 15 minutes, opened by its first request or by its first
\* request after the window before has expired: a request is passed on when
\* fewer than 100 have been in its window, every other one is answered 429 and
\* is not passed on, the first request after a window has expired is passed
\* on, and the requests of another client do not count.
C29_RateLimit ==
    [][last'.op = "request" =>
        LET ip == verdict'.ip
            w == passedOn[ip]
            open == ~Expired(w, now)
        IN  /\ ip \in Ips
            /\ (open /\ w.passed >= 100)
                  => (~verdict'.next /\ verdict'.status = 429)
            /\ (open /\ w.passed < 100) => verdict'.next
            /\ ~open => (verdict'.next /\ passedOn'[ip] = [opened |-> now, passed |-> 1])
            /\ passedOn'[ip].passed <= 100
            /\ passedOn'[ip].opened + 15 * 60 * 1000 >= now
            /\ \A o \in Ips \ {ip} :
                  /\ passedOn'[o] = passedOn[o]
                  /\ Has(requestCounts, o) <=> Has(requestCounts', o)
                  /\ IF Has(requestCounts, o) THEN requestCounts'[o] = requestCounts[o]
                     ELSE TRUE]_vars

\* A client was answered 429 at the last instant of its second window, after
\* 100 of its requests in that window had been passed on, while the window of
\* another client was open with fewer.
C29_Witness ==
    /\ last.op = "request"
    /\ verdict.status = 429 /\ ~verdict.next
    /\ passedOn[verdict.ip].passed = 100
    /\ passedOn[verdict.ip].opened > 0
    /\ now = passedOn[verdict.ip].opened + 15 * 60 * 1000
    /\ \E o \in Ips \ {verdict.ip} :
          /\ ~Expired(passedOn[o], now)
          /\ passedOn[o].passed < 100

\* C30: after any sequence of create, update and delete requests no two
\* requests in the store, the mock store or the table, have the same
\* request_id.
C30_UniqueRequestIds ==
    /\ \A i, j \in 1..Len(mockRequests) :
          i # j => mockRequests[i].request_id # mockRequests[j].request_id
    /\ \A i, j \in 1..Len(dbRows) :
          i # j => dbRows[i].request_id # dbRows[j].request_id

\* The status flow of the documentation: one stage forward, or cancelled from
\* a stage that is not final.
Workflow ==
    { <<"pending", "confirmed">>, <<"confirmed", "in_progress">>,
      <<"in_progress", "completed">>, <<"pending", "cancelled">>,
      <<"confirmed", "cancelled">>, <<"in_progress", "cancelled">> }

FollowsWorkflow(before, after) ==
    after.status = before.status \/ <<before.status, after.status>> \in Workflow

\* C31: a request enters the store with status pending, and a step that keeps
\* the requests of the store in place (an update) leaves the status of each
\* as it is or moves it along the documented workflow.  (A status outside the
\* five documented values is the matter of C32 and is not counted here.)
C31_StatusFollowsWorkflow ==
    [][/\ Len(mockRequests') = Len(mockRequests) + 1
            => mockRequests'[1].status = "pending"
       /\ Len(dbRows') = Len(dbRows) + 1
            => dbRows'[Len(dbRows')].status = "pending"
       /\ Len(mockRequests') = Len(mockRequests) =>
             \A i \in 1..Len(mockRequests) :
                 \/ FollowsWorkflow(mockRequests[i], mockRequests'[i])
                 \/ mockRequests[i].status \notin StatusValues
                 \/ mockRequests'[i].status \notin StatusValues
       /\ Len(dbRows') = Len(dbRows) =>
             \A i \in 1..Len(dbRows) :
                 \/ FollowsWorkflow(dbRows[i], dbRows'[i])
                 \/ dbRows[i].status \notin StatusValues
                 \/ dbRows'[i].status \notin StatusValues]_vars

\* C32: the status of every request in the store, the mock store or the
\* table, is one of pending, confirmed, in_progress, completed and cancelled,
\* and so is the status of every request a step broadcasts.
C32_StatusInEnum ==
    /\ \A i \in 1..Len(mockRequests) : mockRequests[i].status \in StatusValues
    /\ \A i \in 1..Len(dbRows) : dbRows[i].status \in StatusValues
    /\ \A i \in 1..Len(calls) :
          IF Has(calls[i].data, "request")
          THEN calls[i].data.request.status \in StatusValues
          ELSE TRUE

\* C33: a heartbeat timer is active only for a connection that is in the
\* registry: whichever step removes a connection also cancels its timer.
C33_TimerOnlyForRegistered ==
    \A c \in Objs : heartbeat[c] => c \in Registered

\* C34: on the stream of a registered connection every event line is
\* followed at once by the data line of the same frame, and every data line
\* of a broadcast or direct-send frame comes right after its event line: no
\* heartbeat and no line of another frame is between them, and no event line
\* is left without its data line.
C34_FrameLinesAdjacent ==
    recording =>
        \A c \in Registered :
            \A i \in 1..Len(sink[c]) :
                /\ sink[c][i].line = "event" =>
                      /\ i < Len(sink[c])
                      /\ sink[c][i + 1].line = "data"
                      /\ sink[c][i + 1].type = sink[c][i].type
                      /\ sink[c][i + 1].data.type = sink[c][i].type
                /\ (sink[c][i].line = "data"
                        /\ sink[c][i].type \notin {"connected", "heartbeat"}) =>
                      /\ i > 1
                      /\ sink[c][i - 1].line = "event"
                      /\ sink[c][i - 1].type = sink[c][i].type

\* A stream carried a direct-send frame, then a heartbeat, then a broadcast
\* frame.
C34_Witness ==
    /\ recording
    /\ \E c \in Registered :
        \E i, j, k \in 1..Len(sink[c]) :
            /\ i < j /\ j < k
            /\ sink[c][i].line = "data" /\ sink[c][i].type = "request-updated"
            /\ sink[c][j].type = "heartbeat"
            /\ sink[c][k].line = "event" /\ sink[c][k].type = "request-created"

\* C35: a delete is answered with success, and a request-deleted event is
\* broadcast, only for an id that a request of the store had when the delete
\* was carried out (by the handler on the mock store, by the data store on the
\* table): a delete of an id that no request has broadcasts nothing.
C35_DeleteOnlyExisting ==
    [][((reply'.op = "delete" /\ reply'.success)
          \/ \E i \in 1..Len(calls') : calls'[i].type = "request-deleted") =>
        /\ reply'.op = "delete"
        /\ IF supabase
           THEN \E k \in 1..Len(inflight) :
                    /\ inflight' = Splice(inflight, k)
                    /\ inflight[k].kind = "delete"
                    /\ inflight[k].id = reply'.id
                    /\ inflight[k].found
           ELSE findIndex(mockRequests, reply'.id) # 0]_vars

\* The request after is the request before with the fields of body, other
\* than request_id and created_at, written over it and updated_at set to t.
UpdatedBy(before, after, body, t) ==
    /\ after.request_id = before.request_id
    /\ after.created_at = before.created_at
    /\ after.updated_at = Iso(t)
    /\ \A f \in (DOMAIN after \cup DOMAIN before) \ {"updated_at"} :
          IF f \in DOMAIN body \ {"request_id", "created_at"}
          THEN f \in DOMAIN after /\ after[f] = body[f]
          ELSE f \in DOMAIN after /\ f \in DOMAIN before /\ after[f] = before[f]

\* C36: an update changes one request of the store, keeps its request_id and
\* created_at whatever the body names, keeps every field the body does not
\* name, and sets updated_at to the time of the update; on the mock store the
\* request is the one the reply returns, on the table the update is the one
\* of an awaited call.
C36_UpdateKeepsReadOnly ==
    [][/\ Len(mockRequests') = Len(mockRequests) =>
             \A i \in 1..Len(mockRequests) :
                 mockRequests'[i] # mockRequests[i] =>
                     /\ reply'.op = "update" /\ reply'.success
                     /\ reply'.data = mockRequests'[i]
                     /\ \E body \in UpdateBodies :
                           UpdatedBy(mockRequests[i], mockRequests'[i], body, now)
                     /\ \A j \in 1..Len(mockRequests) \ {i} :
                           mockRequests'[j] = mockRequests[j]
       /\ Len(dbRows') = Len(dbRows) =>
             \A i \in 1..Len(dbRows) :
                 dbRows'[i] # dbRows[i] =>
                     /\ \E k \in 1..Len(inflight) :
                           /\ inflight[k].kind = "update"
                           /\ inflight[k].id = dbRows[i].request_id
                           /\ UpdatedBy(dbRows[i], dbRows'[i], inflight[k].data, now)
                     /\ \A j \in 1..Len(dbRows) \ {i} : dbRows'[j] = dbRows[j]]_vars

\* An update whose body named request_id and created_at was answered with
\* success, and the request kept both.
C36_Witness ==
    /\ reply.op = "update" /\ reply.success
    /\ reply.data.status = "cancelled"
    /\ reply.data.request_id = "DR-2024-001236"
    /\ reply.data.created_at = Iso(PastDate)
    /\ reply.data.updated_at = Iso(now)

\* The request ids of a sequence of requests.
Ids(rows) == {rows[i].request_id : i \in 1..Len(rows)}

\* The requests the mutations are applied to: the table with the data store,
\* the mock store without it.
StoreOfRecord == IF supabase THEN dbRows ELSE mockRequests

\* The answer to GET /api/requests/:id when the data store executes the
\* lookup in this state.
LookupNow(id) ==
    LET call == Awaited("get", id, <<>>)
        done == [call EXCEPT !.result = DbApply(dbRows, call, now).result]
    IN  getAwaited(mockRequests, done).reply

\* C37: when the last answer is a successful create and the created request
\* is still stored, the next answer, if it is the unfiltered list, holds the
\* request, and if it is a lookup of its id, it is the request; when the last
\* answer is a successful delete and no request with the id is stored, the
\* unfiltered list answered next does not hold the id and a lookup of it is
\* answered not found.  With the data store the lookup is the one the store
\* executes in the state of the answer.
C37_ReadYourWrites ==
    /\ [][/\ ( /\ reply.op = "create" /\ reply.success
               /\ reply.data.request_id \in Ids(StoreOfRecord) ) =>
               /\ reply' = listRequests(mockRequests', NoQuery) =>
                      reply.data.request_id \in Ids(reply'.data)
               /\ (reply'.op = "get" /\ reply'.id = reply.data.request_id) =>
                      /\ reply'.success
                      /\ reply'.data.request_id = reply.data.request_id
          /\ ( /\ reply.op = "delete" /\ reply.success
               /\ reply.id \notin Ids(StoreOfRecord) ) =>
               /\ reply' = listRequests(mockRequests', NoQuery) =>
                      reply.id \notin Ids(reply'.data)
               /\ (reply'.op = "get" /\ reply'.id = reply.id) => ~reply'.success]_vars
    /\ [](supabase =>
           /\ ( /\ reply.op = "create" /\ reply.success
                /\ reply.data.request_id \in Ids(StoreOfRecord) ) =>
                   LookupNow(reply.data.request_id).success
           /\ ( /\ reply.op = "delete" /\ reply.success
                /\ reply.id \notin Ids(StoreOfRecord) ) =>
                   ~LookupNow(reply.id).success)

\* C38: once gracefulShutdown has run, the process eventually exits; it exits
\* with code 0 only when the server has closed (it no longer listens and no
\* connection is open) and with code 1 only when a forced-shutdown timer is
\* due, and with no other code.
C38_EventuallyExits ==
    /\ (~listening) ~> (exitCode # NoExit)
    /\ [](exitCode = 0 => ~listening /\ Drained)
    /\ [](exitCode = 1 => \E due \in forceTimers : now >= due)
    /\ [](exitCode \in {NoExit, 0, 1})

\* The forced exit happens while a subscriber connection is open and in the
\* registry.
C38_Witness ==
    /\ exitCode = 1
    /\ \E c \in Registered : reqOpen[c] /\ response[c] = "open"

\* C10: no two registered connections have the same id.
C10_UniqueIds ==
    \A c, d \in Registered : c # d => client[c].id # client[d].id

====
